---- MODULE Spec2Model ----
(***************************************************************************)
(* Model of the gmail-cleaner job engine (src/app/core/state.py and        *)
(* src/app/services/gmail.py).                                             *)
(*                                                                         *)
(* The status dictionaries of AppState are Python objects: an attribute of *)
(* `state` is bound to a dict, reset_* binds the attribute to a NEW dict,  *)
(* and every write `state.x_status[f] = v` looks the attribute up at the   *)
(* time of the write.  The model keeps that: `heap` is the sequence of all *)
(* dicts ever created (an object id is an index into it) and `state` maps  *)
(* each existing attribute to the id of the dict it is bound to.           *)
(*                                                                         *)
(* Message-id lists are kept run-length encoded: the ids of one sender are *)
(* contiguous in every list the code builds, so a list is a sequence of    *)
(* segments [sender, n] and its length the sum of the n.                   *)
(* f-strings are kept as tuples <<text, value, ...>>.                      *)
(***************************************************************************)
EXTENDS Integers, Sequences, FiniteSets, TLC

VARIABLES
    state,                \* AppState: [attribute name -> object id]
    heap,                 \* Seq of dict objects, indexed by object id
    scan_results,         \* state.scan_results (the ResultCache of the subscription scan)
    delete_scan_results,  \* state.delete_scan_results (the ResultCache of the sender scan)
    job,                  \* [Workers -> frame]: the background task of each worker
    mailbox,              \* remote mailbox: [Senders -> number of messages from:sender]
    calls,                \* [Workers -> Seq of remote calls issued by the current job]
    held                  \* what the status poller got from its last get_*_status call

vars == <<state, heap, scan_results, delete_scan_results, job, mailbox, calls, held>>

----------------------------------------------------------------------------
(* Bounds of the model *)

MaxSenders == 2      \* longest `senders` argument of a job
MaxPages == 2        \* most full listing pages one sender's mailbox fills
MaxRaceSenders == 1  \* longest `senders` argument where two jobs run concurrently
MaxInbox == 3        \* most messages in a mailbox whose scan is followed message by message
MaxFilterItems == 3  \* most items of a filters dict
MaxValueLen == 4     \* most tokens of a List-Unsubscribe value
MaxParts == 2        \* most parts of a payload or of a multipart part

(* Program constants *)

PageSize == 500      \* maxResults of every messages.list call
batch_size == 1000   \* ids per batchModify call of the two-phase jobs
download_batch_size == 50   \* messages.get requests per batch of the download job
FetchBudget == 95    \* progress budget of the download job's fetch loop
Phase1Budget == 40   \* progress budget of phase 1
Phase2Budget == 60   \* progress budget of phase 2
scan_batch_size == 100   \* requests per batch of the scan jobs, ids per batchModify of mark-read
MaxLimit == 5000     \* largest `limit` a scan request may carry

Workers == {"w1", "w2"}
Senders == {"a@x.com", "b@y.com"}
LabelIds == {"", "Label_1"}
\* Python's None; every message and error text is a tuple, and so is None.
None == <<"None">>
\* The error texts get_gmail_service can return in its (service, error) pair.
AuthErrors == {<<"Not authenticated">>, <<"Sign-in already in progress">>}

\* Numbers of messages a sender can have: none, one, or one message more
\* than one full listing page or than MaxPages full listing pages.
MsgCounts == {0, 1} \cup {PageSize * p + 1 : p \in {1, MaxPages}}

RECURSIVE SeqsUpTo(_, _)
SeqsUpTo(S, n) ==
    IF n = 0 THEN {<<>>}
    ELSE LET shorter == SeqsUpTo(S, n - 1)
         IN  shorter \cup {Append(q, x) : q \in {r \in shorter : Len(r) = n - 1}, x \in S}

SenderLists == SeqsUpTo(Senders, MaxSenders)

Min(a, b) == IF a < b THEN a ELSE b

\* int((num / den) * scale) of the Python code, for 0 <= num <= den, den > 0.
Pct(num, den, scale) == (num * scale) \div den

RECURSIVE SumN(_)
SumN(segs) == IF segs = <<>> THEN 0 ELSE Head(segs).n + SumN(Tail(segs))

RECURSIVE SumOver(_, _)
\* The sum of f[x] over the finite set S.
SumOver(f, S) ==
    IF S = {} THEN 0
    ELSE LET x == CHOOSE y \in S : TRUE IN f[x] + SumOver(f, S \ {x})

\* len() of a run-length encoded id list
IdLen(segs) == SumN(segs)

\* errors[:3]
FirstThree(errs) == SubSeq(errs, 1, Min(3, Len(errs)))

----------------------------------------------------------------------------
(* AppState: src/app/core/state.py *)

ScanKinds == {"scan_status", "delete_scan_status"}

\* The attributes AppState.__init__ binds.
InitAttrs == {"scan_status", "mark_read_status", "delete_scan_status",
              "delete_bulk_status", "download_status"}

\* The attributes that are first bound inside reset_download.
LateAttrs == {"label_operation_status", "archive_status", "important_status"}

StatusAttrs == InitAttrs \cup LateAttrs

Base == [progress |-> 0, message |-> <<"Ready">>, done |-> FALSE, error |-> None]

\* The dict literal the code binds to attribute k (in __init__ and in reset_*).
Fresh(k) ==
    CASE k \in ScanKinds -> Base
      [] k = "mark_read_status" ->
            [progress |-> 0, message |-> <<"Ready">>, done |-> FALSE, error |-> None,
             marked_count |-> 0]
      [] k = "delete_bulk_status" ->
            [progress |-> 0, message |-> <<"Ready">>, done |-> FALSE, error |-> None,
             deleted_count |-> 0, total_senders |-> 0, current_sender |-> 0]
      [] k = "download_status" ->
            [progress |-> 0, message |-> <<"Ready">>, done |-> FALSE, error |-> None,
             total_emails |-> 0, fetched_count |-> 0, csv_data |-> None]
      [] k = "archive_status" ->
            [progress |-> 0, message |-> <<"Ready">>, done |-> FALSE, error |-> None,
             archived_count |-> 0, total_senders |-> 0, current_sender |-> 0]
      [] k \in {"label_operation_status", "important_status"} ->
            [progress |-> 0, message |-> <<"Ready">>, done |-> FALSE, error |-> None,
             affected_count |-> 0, total_senders |-> 0, current_sender |-> 0]

\* The attributes one reset_* method rebinds, in the order it binds them.
ResetDownloadAttrs == <<"download_status", "label_operation_status",
                        "archive_status", "important_status">>

ResetTargets(k) == IF k = "download_status" THEN ResetDownloadAttrs ELSE <<k>>

\* Binding the attributes in `ks` to new dict objects appended to heap `h`.
RECURSIVE Bind(_, _, _)
Bind(st, h, ks) ==
    IF ks = <<>> THEN [st |-> st, h |-> h]
    ELSE LET k == Head(ks)
             h2 == Append(h, Fresh(k))
             st2 == [a \in (DOMAIN st) \cup {k} |-> IF a = k THEN Len(h2) ELSE st[a]]
         IN  Bind(st2, h2, Tail(ks))

\* A dict object that nothing refers to any more (Python has freed it).
Freed == [freed |-> TRUE]

\* Heap h with every object freed that neither an attribute of st nor the
\* poller's reference `keep` refers to.
Collect(st, h, keep) ==
    [id \in DOMAIN h |->
        IF id = keep \/ \E a \in DOMAIN st : st[a] = id THEN h[id] ELSE Freed]

\* AppState.__init__
AppStateInit == Bind(<<>>, <<>>, <<"scan_status", "mark_read_status", "delete_scan_status",
                                  "delete_bulk_status", "download_status">>)

\* state.<k>: the dict the attribute is bound to now
Dict(k) == heap[state[k]]

\* state.<k>[f] = v
Write(k, f, v) == heap' = [heap EXCEPT ![state[k]] = [@ EXCEPT ![f] = v]]

----------------------------------------------------------------------------
(* The two-phase jobs of src/app/services/gmail.py:                        *)
(* delete_emails_bulk_background, apply_label_to_senders_background and    *)
(* remove_label_from_senders_background.  One action per status write or   *)
(* remote call, so that every state a poller or another worker can see     *)
(* between two writes is a state of the model.                             *)

DeleteBulk == "delete_emails_bulk_background"
ApplyLabel == "apply_label_to_senders_background"
RemoveLabel == "remove_label_from_senders_background"
Download == "download_emails_background"
Scan == "scan_emails"
DeleteScan == "scan_senders_for_delete"
MarkRead == "mark_emails_as_read"
Archive == "archive_emails_background"
MarkImportant == "mark_important_background"
ScanFns == {Scan, DeleteScan, MarkRead}
PerSenderFns == {Archive, MarkImportant}
LabelFns == {ApplyLabel, RemoveLabel}
TwoPhaseFns == {DeleteBulk} \cup LabelFns

\* The status attribute a job function writes.
Slot(fn) ==
    CASE fn = DeleteBulk -> "delete_bulk_status"
      [] fn \in LabelFns -> "label_operation_status"
      [] fn = Download -> "download_status"
      [] fn = Scan -> "scan_status"
      [] fn = DeleteScan -> "delete_scan_status"
      [] fn = MarkRead -> "mark_read_status"
      [] fn = Archive -> "archive_status"
      [] fn = MarkImportant -> "important_status"

\* The counter of affected messages in that status.
CountField(fn) == IF fn = DeleteBulk THEN "deleted_count" ELSE "affected_count"

\* A worker that runs nothing.  `own` and `raced` are history fields: the
\* status dict as it would be had only this job written to it since its reset,
\* and whether another job of the same function was running at that reset.
IdleFrame ==
    [fn |-> "none", pc |-> "idle", senders |-> <<>>, label_id |-> "",
     i |-> 0, messages |-> 0, all_message_ids |-> <<>>, errors |-> <<>>,
     total_emails |-> 0, j |-> 0, deleted |-> 0, fetched |-> 0, email_data |-> 0,
     limit |-> 0, processed |-> 0, important |-> TRUE,
     responses |-> <<>>, unsubscribe_data |-> <<>>, sender_counts |-> <<>>,
     args |-> <<>>, ret |-> None, rows |-> <<>>,
     legacy |-> <<>>, sorted_results |-> <<>>, tested_count |-> 0, types |-> <<>>,
     error |-> None, own |-> Base, raced |-> FALSE]

Running(w) == job[w].pc \notin {"idle", "returned"}

\* BackgroundTasks.add_task(fn, ...): the task starts at the first line of fn.
\* A worker runs one job in a behaviour; a second job is a second worker's.
Submit(w, fn, senders, label_id) ==
    /\ job[w].pc = "idle"
    /\ job' = [job EXCEPT ![w] = [IdleFrame EXCEPT !.fn = fn, !.pc = "reset",
                                                   !.senders = senders,
                                                   !.label_id = label_id]]
    /\ calls' = [calls EXCEPT ![w] = <<>>]
    /\ UNCHANGED <<state, heap, scan_results, delete_scan_results, mailbox, held>>

SubmitDeleteBulk(w) ==
    \E senders \in SenderLists : Submit(w, DeleteBulk, senders, "")

\* True of a step in which no job is submitted with more than n senders.
ShortLists(n) == \A w \in Workers : Len(job'[w].senders) <= n

SubmitLabel(w) ==
    \E fn \in LabelFns, senders \in SenderLists, label_id \in LabelIds :
        Submit(w, fn, senders, label_id)

\* state.<slot>[f] = v by worker w, which then continues at `next`.
Put(w, f, v, next) ==
    /\ Write(Slot(job[w].fn), f, v)
    /\ job' = [job EXCEPT ![w].pc = next, ![w].own = [@ EXCEPT ![f] = v]]
    /\ UNCHANGED <<state, scan_results, delete_scan_results, mailbox, calls, held>>

\* Where the function goes after its reset_* call.
AfterReset(f) ==
    IF f.fn = DeleteBulk
    THEN IF f.senders = <<>> THEN "nosenders_done" ELSE "total_senders"
    ELSE IF f.label_id = "" THEN "nolabel_done"
         ELSE IF f.senders = <<>> THEN "nosenders_done" ELSE "auth"

\* state.reset_delete_bulk() / state.reset_label_operation()
Reset(w) ==
    /\ job[w].pc = "reset"
    /\ job[w].fn \in TwoPhaseFns
    /\ LET b == Bind(state, heap, ResetTargets(Slot(job[w].fn)))
       IN  /\ state' = b.st
           /\ heap' = Collect(b.st, b.h, held.ref)
    /\ job' = [job EXCEPT ![w].pc = AfterReset(job[w]),
                          ![w].own = Fresh(Slot(job[w].fn)),
                          ![w].raced = \E v \in Workers \ {w} :
                                          /\ job[v].fn = job[w].fn
                                          /\ job[v].pc \notin {"idle", "reset", "returned"}]
    /\ UNCHANGED <<scan_results, delete_scan_results, mailbox, calls, held>>

\* if not label_id: done = True; error = "Label ID is required"; return
NoLabelDone(w) ==
    /\ job[w].pc = "nolabel_done"
    /\ Put(w, "done", TRUE, "nolabel_error")

NoLabelError(w) ==
    /\ job[w].pc = "nolabel_error"
    /\ Put(w, "error", <<"Label ID is required">>, "returned")

\* if not senders: done = True; error = "No senders specified"; return
NoSendersDone(w) ==
    /\ job[w].pc = "nosenders_done"
    /\ Put(w, "done", TRUE, "nosenders_error")

NoSendersError(w) ==
    /\ job[w].pc = "nosenders_error"
    /\ Put(w, "error", <<"No senders specified">>, "returned")

StartMessage(fn) ==
    CASE fn = DeleteBulk -> <<"Collecting emails to delete...">>
      [] fn = ApplyLabel -> <<"Finding emails to label...">>
      [] fn = RemoveLabel -> <<"Finding emails to unlabel...">>

\* state.<slot>["total_senders"] = len(senders)
WriteTotalSenders(w) ==
    /\ job[w].pc = "total_senders"
    /\ Put(w, "total_senders", Len(job[w].senders), "start_message")

\* The delete job authenticates after these two writes, the label jobs before.
WriteStartMessage(w) ==
    /\ job[w].pc = "start_message"
    /\ Put(w, "message", StartMessage(job[w].fn),
           IF job[w].fn = DeleteBulk THEN "auth" ELSE "phase1")

\* The call log entry of one get_gmail_service() call that returned the pair
\* (service, error).
AuthCall(error) == [op |-> "auth", ok |-> error = None, error |-> error]

\* service, error = get_gmail_service()
Auth(w) ==
    /\ job[w].pc = "auth"
    /\ job[w].fn \in TwoPhaseFns
    /\ \E error \in {None} \cup AuthErrors :
          /\ job' = [job EXCEPT ![w].pc =
                        IF error # None THEN "auth_done"
                        ELSE IF job[w].fn = DeleteBulk THEN "phase1" ELSE "total_senders",
                                ![w].error = error]
          /\ calls' = [calls EXCEPT ![w] = Append(@, AuthCall(error))]
    /\ UNCHANGED <<state, heap, scan_results, delete_scan_results, mailbox, held>>

\* if error: done = True; error = error; return
AuthDone(w) ==
    /\ job[w].pc = "auth_done"
    /\ job[w].fn \in TwoPhaseFns
    /\ Put(w, "done", TRUE, "auth_error")

AuthError(w) ==
    /\ job[w].pc = "auth_error"
    /\ job[w].fn \in TwoPhaseFns
    /\ Put(w, "error", job[w].error, "returned")

----------------------------------------------------------------------------
(* Phase 1: for i, sender in enumerate(senders): list every page of        *)
(* from:<sender> and extend all_message_ids.                               *)

\* The sender of the current loop iteration (i is 0-based as in the code).
CurSender(f) == f.senders[f.i + 1]

\* The remote's answer to one messages.list call for `sender` when `have`
\* messages were returned by the earlier pages: the page and whether the
\* result carries a nextPageToken.
ListPage(sender, have) ==
    LET left == mailbox[sender] - have
        n == Min(PageSize, left)
    IN  [n |-> n, token |-> left > n]

\* The for loop without the `if not all_message_ids` test after it.
Mutant_Phase1Top_NoEmptyTest(w) ==
    /\ job[w].pc = "phase1"
    /\ job' = [job EXCEPT ![w].pc =
                  IF job[w].i < Len(job[w].senders) THEN "p1_current_sender"
                  ELSE IF IdLen(job[w].all_message_ids) = 0 THEN "fin_progress"
                  ELSE "p2_start"]
    /\ UNCHANGED <<state, heap, scan_results, delete_scan_results, mailbox, calls, held>>

\* Top of the for loop: the next iteration, or the code after the loop.
Phase1Top(w) ==
    /\ job[w].pc = "phase1"
    /\ job' = [job EXCEPT ![w].pc =
                  IF job[w].i < Len(job[w].senders) THEN "p1_current_sender"
                  ELSE IF IdLen(job[w].all_message_ids) = 0 THEN "empty_progress"
                  ELSE "p2_start"]
    /\ UNCHANGED <<state, heap, scan_results, delete_scan_results, mailbox, calls, held>>

\* state.<slot>["current_sender"] = i + 1
P1CurrentSender(w) ==
    /\ job[w].pc = "p1_current_sender"
    /\ Put(w, "current_sender", job[w].i + 1, "p1_progress")

\* Phase 1 interpolating over the whole scale.
Mutant_P1Progress_WholeScale(w) ==
    /\ job[w].pc = "p1_progress"
    /\ Put(w, "progress", Pct(job[w].i, Len(job[w].senders), 100), "p1_message")

\* state.<slot>["progress"] = int((i / total_senders) * 40)
P1Progress(w) ==
    /\ job[w].pc = "p1_progress"
    /\ Put(w, "progress", Pct(job[w].i, Len(job[w].senders), Phase1Budget), "p1_message")

\* state.<slot>["message"] = f"Finding emails from {sender}..."
P1Message(w) ==
    /\ job[w].pc = "p1_message"
    /\ Put(w, "message", <<"Finding emails from", CurSender(job[w])>>, "p1_list")

\* The query of the listing: the remove job also asks for the label.
Query(f) ==
    IF f.fn = RemoveLabel THEN <<"from", CurSender(f), "label", f.label_id>>
    ELSE <<"from", CurSender(f)>>

\* except Exception as e: errors.append(f"{sender}: {str(e)}"), then the
\* next sender: the ids already listed for this sender are dropped.
ListFailed(f) ==
    [f EXCEPT !.errors = Append(@, <<CurSender(f), "list failed">>),
              !.messages = 0, !.i = @ + 1, !.pc = "phase1"]

\* A page arrived: messages.extend(...); with no further token
\* all_message_ids.extend([msg['id'] for msg in messages]) and the next sender.
ListReturned(f, page) ==
    IF page.token
    THEN [f EXCEPT !.messages = @ + page.n, !.pc = "p1_next_page"]
    ELSE [f EXCEPT !.all_message_ids =
                       IF f.messages + page.n = 0 THEN @
                       ELSE Append(@, [sender |-> CurSender(f), n |-> f.messages + page.n]),
                   !.messages = 0, !.i = @ + 1, !.pc = "phase1"]

\* One service.users().messages().list(...).execute(): it raises or returns.
ListCall(w, first) ==
    /\ job[w].pc = IF first THEN "p1_list" ELSE "p1_next_page"
    /\ \E raises \in BOOLEAN :
          /\ calls' = [calls EXCEPT ![w] =
                         Append(@, [op |-> "list", q |-> Query(job[w]), i |-> job[w].i,
                                    first |-> first, ok |-> ~raises])]
          /\ job' = [job EXCEPT ![w] =
                       IF raises THEN ListFailed(job[w])
                       ELSE ListReturned(job[w], ListPage(CurSender(job[w]), job[w].messages))]
    /\ UNCHANGED <<state, heap, scan_results, delete_scan_results, mailbox, held>>

\* results = service.users().messages().list(userId='me', q=query, maxResults=500)
P1List(w) ==
    /\ job[w].pc = "p1_list"
    /\ ListCall(w, TRUE)

\* while 'nextPageToken' in results: results = ...list(..., pageToken=...)
P1NextPage(w) ==
    /\ job[w].pc = "p1_next_page"
    /\ ListCall(w, FALSE)

EmptyMessage(fn) ==
    CASE fn = DeleteBulk -> <<"No emails found to delete">>
      [] fn = ApplyLabel -> <<"No emails found to label">>
      [] fn = RemoveLabel -> <<"No emails found with this label">>

\* if not all_message_ids: progress = 100; done = True; message = ...; return
EmptyProgress(w) ==
    /\ job[w].pc = "empty_progress"
    /\ Put(w, "progress", 100, "empty_done")

EmptyDone(w) ==
    /\ job[w].pc = "empty_done"
    /\ Put(w, "done", TRUE, "empty_message")

EmptyMsg(w) ==
    /\ job[w].pc = "empty_message"
    /\ Put(w, "message", EmptyMessage(job[w].fn), "returned")

----------------------------------------------------------------------------
(* Phase 2: batchModify over all_message_ids in chunks of batch_size,      *)
(* inside one try block, then the final status writes.                     *)

Verb(fn) ==
    CASE fn = DeleteBulk -> "Deleted"
      [] fn = ApplyLabel -> "Labeled"
      [] fn = RemoveLabel -> "Unlabeled"

Phase2Message(fn, total) ==
    CASE fn = DeleteBulk -> <<"Deleting", total, "emails...">>
      [] fn = ApplyLabel -> <<"Applying label to", total, "emails...">>
      [] fn = RemoveLabel -> <<"Removing label from", total, "emails...">>

SuccessMessage(fn, n) ==
    CASE fn = DeleteBulk -> <<"Successfully deleted", n, "emails">>
      [] fn = ApplyLabel -> <<"Successfully labeled", n, "emails">>
      [] fn = RemoveLabel -> <<"Successfully removed label from", n, "emails">>

BatchErrorText(fn) ==
    CASE fn = DeleteBulk -> <<"Batch delete error", "mutate failed">>
      [] fn = ApplyLabel -> <<"Batch label error", "mutate failed">>
      [] fn = RemoveLabel -> <<"Batch unlabel error", "mutate failed">>

\* The body of the batchModify call, without its ids.
Mutation(f) ==
    CASE f.fn = DeleteBulk -> [addLabelIds |-> <<"TRASH">>, removeLabelIds |-> <<>>]
      [] f.fn = ApplyLabel -> [addLabelIds |-> <<f.label_id>>, removeLabelIds |-> <<>>]
      [] f.fn = RemoveLabel -> [addLabelIds |-> <<>>, removeLabelIds |-> <<f.label_id>>]

\* total_emails = len(all_message_ids); message = ...; deleted = 0
P2Start(w) ==
    /\ job[w].pc = "p2_start"
    /\ Write(Slot(job[w].fn), "message",
             Phase2Message(job[w].fn, IdLen(job[w].all_message_ids)))
    /\ job' = [job EXCEPT ![w].pc = "p2_call",
                          ![w].total_emails = IdLen(job[w].all_message_ids),
                          ![w].j = 0, ![w].deleted = 0,
                          ![w].own = [@ EXCEPT !.message =
                              Phase2Message(job[w].fn, IdLen(job[w].all_message_ids))]]
    /\ UNCHANGED <<state, scan_results, delete_scan_results, mailbox, calls, held>>

\* A chunk that is the whole rest of the list.
Mutant_BatchLen_WholeRest(f) == f.total_emails - f.j

\* len(all_message_ids[j:j + batch_size])
BatchLen(f) == Min(batch_size, f.total_emails - f.j)

\* A failed call counted like a successful one.
Mutant_MutateFailed_CountsChunk(f) ==
    [f EXCEPT !.errors = Append(@, BatchErrorText(f.fn)), !.deleted = @ + BatchLen(f),
              !.pc = "fin_progress"]

\* except Exception as e: errors.append(...): the try block encloses the whole
\* for loop, so the exception leaves the loop.
MutateFailed(f) ==
    [f EXCEPT !.errors = Append(@, BatchErrorText(f.fn)), !.pc = "fin_progress"]

\* deleted += len(batch)
MutateReturned(f) ==
    [f EXCEPT !.deleted = @ + BatchLen(f), !.pc = "p2_count"]

\* service.users().messages().batchModify(userId='me', body={...}).execute()
P2Call(w) ==
    /\ job[w].pc = "p2_call"
    /\ \E raises \in BOOLEAN :
          /\ calls' = [calls EXCEPT ![w] =
                         Append(@, [op |-> "batchModify", lo |-> job[w].j,
                                    hi |-> job[w].j + BatchLen(job[w]),
                                    body |-> Mutation(job[w]), ok |-> ~raises])]
          /\ job' = [job EXCEPT ![w] =
                       IF raises THEN MutateFailed(job[w]) ELSE MutateReturned(job[w])]
    /\ UNCHANGED <<state, heap, scan_results, delete_scan_results, mailbox, held>>

\* state.<slot>["deleted_count" | "affected_count"] = deleted
P2Count(w) ==
    /\ job[w].pc = "p2_count"
    /\ Put(w, CountField(job[w].fn), job[w].deleted, "p2_progress")

\* state.<slot>["progress"] = 40 + int((deleted / total_emails) * 60)
P2Progress(w) ==
    /\ job[w].pc = "p2_progress"
    /\ Put(w, "progress",
           Phase1Budget + Pct(job[w].deleted, job[w].total_emails, Phase2Budget),
           "p2_message")

\* state.<slot>["message"] = f"Deleted {deleted}/{total_emails} emails...",
\* then the next value of range(0, total_emails, batch_size) or the loop's end.
P2Message(w) ==
    /\ job[w].pc = "p2_message"
    /\ Write(Slot(job[w].fn), "message",
             <<Verb(job[w].fn), job[w].deleted, "/", job[w].total_emails, "emails...">>)
    /\ job' = [job EXCEPT ![w].j = @ + batch_size,
                          ![w].pc = IF job[w].j + batch_size < job[w].total_emails
                                    THEN "p2_call" ELSE "fin_progress",
                          ![w].own = [@ EXCEPT !.message =
                              <<Verb(job[w].fn), job[w].deleted, "/",
                                job[w].total_emails, "emails...">>]]
    /\ UNCHANGED <<state, scan_results, delete_scan_results, mailbox, calls, held>>

\* # Done: state.<slot>["progress"] = 100
FinProgress(w) ==
    /\ job[w].pc = "fin_progress"
    /\ Put(w, "progress", 100, "fin_done")

\* state.<slot>["done"] = True
FinDone(w) ==
    /\ job[w].pc = "fin_done"
    /\ Put(w, "done", TRUE, "fin_count")

\* state.<slot>["deleted_count"] = deleted, then if errors: ... else: ...
FinCount(w) ==
    /\ job[w].pc = "fin_count"
    /\ Put(w, CountField(job[w].fn), job[w].deleted,
           IF job[w].errors # <<>> THEN "fin_error" ELSE "fin_success")

\* state.<slot>["error"] = f"Some errors: {'; '.join(errors[:3])}"
FinError(w) ==
    /\ job[w].pc = "fin_error"
    /\ Put(w, "error", <<"Some errors:", FirstThree(job[w].errors)>>, "fin_error_message")

\* state.<slot>["message"] = f"Deleted {deleted} emails with some errors"
FinErrorMessage(w) ==
    /\ job[w].pc = "fin_error_message"
    /\ Put(w, "message", <<Verb(job[w].fn), job[w].deleted, "emails with some errors">>,
           "returned")

\* state.<slot>["message"] = f"Successfully deleted {deleted} emails"
FinSuccess(w) ==
    /\ job[w].pc = "fin_success"
    /\ Put(w, "message", SuccessMessage(job[w].fn, job[w].deleted), "returned")

\* One step of a two-phase job run by worker w.
\* The statements of delete_emails_bulk_background, which the two label jobs
\* share.
DeleteBulkStep(w) ==
    \/ Reset(w)
    \/ NoSendersDone(w)
    \/ NoSendersError(w)
    \/ WriteTotalSenders(w)
    \/ WriteStartMessage(w)
    \/ Auth(w)
    \/ AuthDone(w)
    \/ AuthError(w)
    \/ Phase1Top(w)
    \/ P1CurrentSender(w)
    \/ P1Progress(w)
    \/ P1Message(w)
    \/ P1List(w)
    \/ P1NextPage(w)
    \/ EmptyProgress(w)
    \/ EmptyDone(w)
    \/ EmptyMsg(w)
    \/ P2Start(w)
    \/ P2Call(w)
    \/ P2Count(w)
    \/ P2Progress(w)
    \/ P2Message(w)
    \/ FinProgress(w)
    \/ FinDone(w)
    \/ FinCount(w)
    \/ FinError(w)
    \/ FinErrorMessage(w)
    \/ FinSuccess(w)

\* The label jobs check their label_id before anything else.
TwoPhaseStep(w) ==
    \/ DeleteBulkStep(w)
    \/ NoLabelDone(w)
    \/ NoLabelError(w)

----------------------------------------------------------------------------
(* download_emails_background: export the messages of the ResultCache rows *)
(* of the given senders.                                                   *)

SubmitDownload(w) ==
    \E senders \in SenderLists : Submit(w, Download, senders, "")

\* state.reset_download(): it binds download_status and, after it, the label,
\* archive and important status attributes to new dicts.
DlReset(w) ==
    /\ job[w].pc = "reset"
    /\ job[w].fn = Download
    /\ LET b == Bind(state, heap, ResetTargets("download_status"))
       IN  /\ state' = b.st
           /\ heap' = Collect(b.st, b.h, held.ref)
    /\ job' = [job EXCEPT ![w].pc = IF job[w].senders = <<>> THEN "dl_nosenders_done"
                                    ELSE "dl_auth",
                          ![w].own = Fresh("download_status")]
    /\ UNCHANGED <<scan_results, delete_scan_results, mailbox, calls, held>>

\* if not senders: done = True; error = "No senders specified"; return
DlNoSendersDone(w) ==
    /\ job[w].pc = "dl_nosenders_done"
    /\ Put(w, "done", TRUE, "dl_nosenders_error")

DlNoSendersError(w) ==
    /\ job[w].pc = "dl_nosenders_error"
    /\ Put(w, "error", <<"No senders specified">>, "returned")

\* service, error = get_gmail_service()
DlAuth(w) ==
    /\ job[w].pc = "dl_auth"
    /\ \E error \in {None} \cup AuthErrors :
          /\ job' = [job EXCEPT ![w].pc = IF error # None THEN "dl_auth_done"
                                          ELSE "dl_collect_message",
                                ![w].error = error]
          /\ calls' = [calls EXCEPT ![w] = Append(@, AuthCall(error))]
    /\ UNCHANGED <<state, heap, scan_results, delete_scan_results, mailbox, held>>

\* if error: done = True; error = error; return
DlAuthDone(w) ==
    /\ job[w].pc = "dl_auth_done"
    /\ Put(w, "done", TRUE, "dl_auth_error")

DlAuthError(w) ==
    /\ job[w].pc = "dl_auth_error"
    /\ Put(w, "error", job[w].error, "returned")

\* state.download_status["message"] = "Collecting emails from scan results..."
DlCollectMessage(w) ==
    /\ job[w].pc = "dl_collect_message"
    /\ Put(w, "message", <<"Collecting emails from scan results...">>, "dl_collect")

\* The message_ids of the first row, whatever its sender.
Mutant_RowIds_FirstRow(rows, sender) ==
    IF rows = <<>> \/ Head(rows).message_ids = 0 THEN <<>>
    ELSE <<[sender |-> Head(rows).email, n |-> Head(rows).message_ids]>>

\* The message_ids of the first row of `rows` whose email is `sender`
\* (for result in rows: if result.get("email") == sender: ...; break).
RECURSIVE RowIds(_, _)
RowIds(rows, sender) ==
    IF rows = <<>> THEN <<>>
    ELSE IF Head(rows).email = sender
         THEN IF Head(rows).message_ids = 0 THEN <<>>
              ELSE <<[sender |-> sender, n |-> Head(rows).message_ids]>>
         ELSE RowIds(Tail(rows), sender)

\* for sender in senders: all_message_ids.extend(<the row's message_ids>)
RECURSIVE CollectFromCache(_, _)
CollectFromCache(rows, senders) ==
    IF senders = <<>> THEN <<>>
    ELSE RowIds(rows, Head(senders)) \o CollectFromCache(rows, Tail(senders))

\* The two loops over senders and state.delete_scan_results, then
\* `if not all_message_ids`.
DlCollect(w) ==
    /\ job[w].pc = "dl_collect"
    /\ LET ids == CollectFromCache(delete_scan_results, job[w].senders)
       IN  job' = [job EXCEPT ![w].all_message_ids = ids,
                              ![w].total_emails = IdLen(ids),
                              ![w].pc = IF IdLen(ids) = 0 THEN "dl_empty_progress"
                                        ELSE "dl_total"]
    /\ UNCHANGED <<state, heap, scan_results, delete_scan_results, mailbox, calls, held>>

\* progress = 100; done = True; error = "No emails found in scan results"; return
DlEmptyProgress(w) ==
    /\ job[w].pc = "dl_empty_progress"
    /\ Put(w, "progress", 100, "dl_empty_done")

DlEmptyDone(w) ==
    /\ job[w].pc = "dl_empty_done"
    /\ Put(w, "done", TRUE, "dl_empty_error")

DlEmptyError(w) ==
    /\ job[w].pc = "dl_empty_error"
    /\ Put(w, "error", <<"No emails found in scan results">>, "returned")

\* state.download_status["total_emails"] = total_emails
DlTotal(w) ==
    /\ job[w].pc = "dl_total"
    /\ Put(w, "total_emails", job[w].total_emails, "dl_fetch_message")

\* state.download_status["message"] = f"Fetching {total_emails} emails..."
DlFetchMessage(w) ==
    /\ job[w].pc = "dl_fetch_message"
    /\ Put(w, "message", <<"Fetching", job[w].total_emails, "emails...">>, "dl_batch")

\* len(all_message_ids[j:j + batch_size])
DlBatchLen(f) == Min(download_batch_size, f.total_emails - f.j)

\* One iteration of the fetch loop up to `fetched += len(batch_ids)`:
\* batch.execute() or the processing of its results raises, or the callback
\* collected the responses (`lost` of the requests came back with an exception
\* or without a response) and a row is appended for each.
DlBatch(w) ==
    /\ job[w].pc = "dl_batch"
    /\ \E raises \in BOOLEAN, lost \in {0, 1} :
          /\ calls' = [calls EXCEPT ![w] =
                         Append(@, [op |-> "batchGet", lo |-> job[w].j,
                                    hi |-> job[w].j + DlBatchLen(job[w]), ok |-> ~raises])]
          /\ job' = [job EXCEPT ![w] =
                       IF raises
                       THEN [@ EXCEPT !.error = <<"Error fetching emails:", "batch failed">>,
                                      !.pc = "dl_fetch_fail_done"]
                       ELSE [@ EXCEPT !.email_data = @ + DlBatchLen(job[w]) - lost,
                                      !.fetched = @ + DlBatchLen(job[w]),
                                      !.pc = "dl_fetched"]]
    /\ UNCHANGED <<state, heap, scan_results, delete_scan_results, mailbox, held>>

\* state.download_status["fetched_count"] = fetched
DlFetched(w) ==
    /\ job[w].pc = "dl_fetched"
    /\ Put(w, "fetched_count", job[w].fetched, "dl_progress")

\* state.download_status["progress"] = int((fetched / total_emails) * 95)
DlProgress(w) ==
    /\ job[w].pc = "dl_progress"
    /\ Put(w, "progress", Pct(job[w].fetched, job[w].total_emails, FetchBudget),
           "dl_message")

\* state.download_status["message"] = f"Fetched {fetched}/{total_emails} emails...",
\* then the next value of range(0, total_emails, batch_size) or the loop's end.
DlMessage(w) ==
    /\ job[w].pc = "dl_message"
    /\ Write("download_status", "message",
             <<"Fetched", job[w].fetched, "/", job[w].total_emails, "emails...">>)
    /\ job' = [job EXCEPT ![w].j = @ + download_batch_size,
                          ![w].pc = IF job[w].j + download_batch_size < job[w].total_emails
                                    THEN "dl_batch" ELSE "dl_csv_progress",
                          ![w].own = [@ EXCEPT !.message =
                              <<"Fetched", job[w].fetched, "/", job[w].total_emails,
                                "emails...">>]]
    /\ UNCHANGED <<state, scan_results, delete_scan_results, mailbox, calls, held>>

\* except Exception as e: done = True; error = f"Error fetching emails: ..."; return
DlFetchFailDone(w) ==
    /\ job[w].pc = "dl_fetch_fail_done"
    /\ Put(w, "done", TRUE, "dl_fetch_fail_error")

DlFetchFailError(w) ==
    /\ job[w].pc = "dl_fetch_fail_error"
    /\ Put(w, "error", job[w].error, "returned")

\* The CSV step reporting 90 after the fetch loop reported up to 95.
Mutant_DlCsvProgress_Ninety(w) ==
    /\ job[w].pc = "dl_csv_progress"
    /\ Put(w, "progress", 90, "dl_csv_message")

\* # Generate CSV: state.download_status["progress"] = 98
DlCsvProgress(w) ==
    /\ job[w].pc = "dl_csv_progress"
    /\ Put(w, "progress", 98, "dl_csv_message")

\* state.download_status["message"] = "Generating CSV..."
DlCsvMessage(w) ==
    /\ job[w].pc = "dl_csv_message"
    /\ Put(w, "message", <<"Generating CSV...">>, "dl_csv")

\* The csv writer calls of the second try block: they raise or return.
DlCsv(w) ==
    /\ job[w].pc = "dl_csv"
    /\ \E raises \in BOOLEAN :
          job' = [job EXCEPT ![w].pc = IF raises THEN "dl_csv_fail_done" ELSE "dl_csv_data",
                             ![w].error = IF raises
                                          THEN <<"Error generating CSV:", "csv failed">>
                                          ELSE @]
    /\ UNCHANGED <<state, heap, scan_results, delete_scan_results, mailbox, calls, held>>

\* state.download_status["csv_data"] = output.getvalue()
DlCsvData(w) ==
    /\ job[w].pc = "dl_csv_data"
    /\ Put(w, "csv_data", <<"csv rows", job[w].email_data>>, "dl_done_progress")

\* state.download_status["progress"] = 100
DlDoneProgress(w) ==
    /\ job[w].pc = "dl_done_progress"
    /\ Put(w, "progress", 100, "dl_done")

\* state.download_status["done"] = True
DlDone(w) ==
    /\ job[w].pc = "dl_done"
    /\ Put(w, "done", TRUE, "dl_ready_message")

\* state.download_status["message"] = f"Ready to download {len(email_data)} emails"
DlReadyMessage(w) ==
    /\ job[w].pc = "dl_ready_message"
    /\ Put(w, "message", <<"Ready to download", job[w].email_data, "emails">>, "returned")

\* except Exception as e: done = True; error = f"Error generating CSV: ..."
DlCsvFailDone(w) ==
    /\ job[w].pc = "dl_csv_fail_done"
    /\ Put(w, "done", TRUE, "dl_csv_fail_error")

DlCsvFailError(w) ==
    /\ job[w].pc = "dl_csv_fail_error"
    /\ Put(w, "error", job[w].error, "returned")

\* One step of a download job run by worker w.
DownloadStep(w) ==
    \/ DlReset(w)
    \/ DlNoSendersDone(w)
    \/ DlNoSendersError(w)
    \/ DlAuth(w)
    \/ DlAuthDone(w)
    \/ DlAuthError(w)
    \/ DlCollectMessage(w)
    \/ DlCollect(w)
    \/ DlEmptyProgress(w)
    \/ DlEmptyDone(w)
    \/ DlEmptyError(w)
    \/ DlTotal(w)
    \/ DlFetchMessage(w)
    \/ DlBatch(w)
    \/ DlFetched(w)
    \/ DlProgress(w)
    \/ DlMessage(w)
    \/ DlFetchFailDone(w)
    \/ DlFetchFailError(w)
    \/ DlCsvProgress(w)
    \/ DlCsvMessage(w)
    \/ DlCsv(w)
    \/ DlCsvData(w)
    \/ DlDoneProgress(w)
    \/ DlDone(w)
    \/ DlReadyMessage(w)
    \/ DlCsvFailDone(w)
    \/ DlCsvFailError(w)

----------------------------------------------------------------------------
(* The rows download_emails_background exports: get_email_body and the dict *)
(* appended to email_data for one fetched message.  A text is a record: the *)
(* part it was decoded from, its length, and how many of its characters are *)
(* leading or trailing whitespace.  A part that has sub-parts is a record    *)
(* with a `parts` field; 'parts' in part is "parts" \in DOMAIN part.          *)

ExportRow == "export_row"

SnippetLimit == 100
BodyLimit == 50000

EmptyText == [src |-> "", len |-> 0, pad |-> 0]

Text(src, len, pad) == [src |-> src, len |-> len, pad |-> pad]

\* s[:n]
Slice(s, n) == IF s.len <= n THEN s ELSE [s EXCEPT !.len = n]

\* s.strip()
Strip(s) == IF s.pad = s.len THEN EmptyText ELSE [s EXCEPT !.len = @ - s.pad, !.pad = 0]

\* 'body' in part and part['body'].get('data')
HasData(part) == part.body.data.len > 0

\* decode_base64_content(part['body']['data'])
Decode(part) == part.body.data

\* The loop over payload['parts'] from its k-th part on, with `body` as the
\* loop left it so far; a `break` returns the body at once.  A nested part
\* that yields nothing leaves body empty, whatever it was.  A text/html part
\* is looked at only while body is empty.
RECURSIVE get_email_body(_)
RECURSIVE ScanParts(_, _, _)
ScanParts(parts, k, body) ==
    IF k > Len(parts) THEN body
    ELSE LET part == parts[k]
         IN  IF part.mimeType = "text/plain"
             THEN IF HasData(part) THEN Decode(part)
                  ELSE ScanParts(parts, k + 1, body)
             ELSE IF part.mimeType = "text/html" /\ body.len = 0
             THEN ScanParts(parts, k + 1, IF HasData(part) THEN Decode(part) ELSE body)
             ELSE IF "parts" \in DOMAIN part
             THEN LET nested == get_email_body(part)
                  IN  IF nested.len > 0 THEN nested
                      ELSE ScanParts(parts, k + 1, nested)
             ELSE ScanParts(parts, k + 1, body)

get_email_body(payload) ==
    Strip(IF HasData(payload) THEN Decode(payload)
          ELSE IF "parts" \in DOMAIN payload THEN ScanParts(payload.parts, 1, EmptyText)
          ELSE EmptyText)

\* The dict appended to email_data for msg (the fields the claims are about).
RowFor(msg) ==
    LET body == get_email_body(msg.payload)
    IN  [message_id |-> msg.id,
         snippet |-> Slice(msg.snippet, SnippetLimit),
         body |-> IF body.len > 0 THEN Slice(body, BodyLimit) ELSE EmptyText]

\* Parts without sub-parts: text/plain and text/html with and without data,
\* a text/plain part of whitespace only, one longer than the body limit, and
\* an attachment.
Leaf(mime, data) == [mimeType |-> mime, body |-> [data |-> data]]

PlainShort == Leaf("text/plain", Text("text/plain", 3, 1))
HtmlShort == Leaf("text/html", Text("text/html", 5, 0))

Leaves ==
    {PlainShort, HtmlShort,
     Leaf("text/plain", Text("text/plain", BodyLimit + 1, 0)),
     Leaf("text/plain", Text("text/plain", 2, 2)),
     Leaf("text/plain", EmptyText),
     Leaf("text/html", EmptyText),
     Leaf("image/png", Text("image/png", 4, 0))}

\* multipart/* parts: no data of their own, sub-parts without sub-parts.
Multi(parts) == [mimeType |-> "multipart", body |-> [data |-> EmptyText], parts |-> parts]

Multiparts(most) ==
    {Multi(p) : p \in SeqsUpTo({PlainShort, HtmlShort, Leaf("image/png", Text("image/png", 4, 0))},
                               most) \ {<<>>}}

\* The messages of the model: a payload that is a single part, or a multipart
\* payload of up to `most` parts, each a leaf or a multipart; a snippet at
\* and above the limit.
Messages(most) ==
    {[id |-> 1, snippet |-> Text("snippet", n, 0), payload |-> p] :
        n \in {SnippetLimit, SnippetLimit + 1},
        p \in Leaves \cup {Multi(q) : q \in SeqsUpTo(Leaves \cup Multiparts(most), most)}}

\* One iteration of `for msg in batch_results`: email_data.append({...}).
ExportRowReturn(w) ==
    /\ job[w].fn = ExportRow
    /\ job[w].pc = "call"
    /\ job' = [job EXCEPT ![w].ret = RowFor(job[w].args), ![w].pc = "returned"]
    /\ UNCHANGED <<state, heap, scan_results, delete_scan_results, mailbox, calls, held>>

----------------------------------------------------------------------------
(* scan_emails, scan_senders_for_delete and mark_emails_as_read: list up to *)
(* `limit` message ids, then work through them in batches of 100.  The      *)
(* three functions share their shape; everything after the authentication  *)
(* is inside one try block.                                                *)

\* The `limit` (or `count`) arguments of the model: one message, one listing
\* page and one message more, and the largest the request schema accepts.
Limits == {1, PageSize + 1, MaxLimit}

\* The senders whose messages carry a List-Unsubscribe header.
Unsubscribable == {"a@x.com"}

\* sender_email.split('@')[-1]
DomainOf == [s \in Senders |-> IF s = "a@x.com" THEN "x.com" ELSE "y.com"]

\* The number of messages in the mailbox that match the query of the job.
Matching == SumOver(mailbox, Senders)

\* The remote lists the messages of a@x.com before those of b@y.com: how many
\* of the first n listed messages are from sender s.
ListedFrom(s, n) ==
    IF s = "a@x.com" THEN Min(n, mailbox[s]) ELSE n - Min(n, mailbox["a@x.com"])

\* sorted(rows, key=count, reverse=True) of the rows of the two senders, `ra`
\* inserted before `rb`: the sort is stable, rows without messages do not exist.
SortedRows(ra, rb) ==
    SelectSeq(IF rb.count > ra.count THEN <<rb, ra>> ELSE <<ra, rb>>,
              LAMBDA r : r.count > 0)

\* sorted_senders of scan_senders_for_delete after n messages were read.
SenderRows(n) ==
    LET row(s) == [email |-> s, count |-> ListedFrom(s, n), message_ids |-> ListedFrom(s, n)]
    IN  SortedRows(row("a@x.com"), row("b@y.com"))

\* sorted_results of scan_emails after n messages were read: one row for each
\* domain that sent a message with an unsubscribe link.
SubscriptionRows(n) ==
    LET row(s) == [domain |-> DomainOf[s], email |-> s,
                   count |-> IF s \in Unsubscribable THEN ListedFrom(s, n) ELSE 0]
    IN  SortedRows(row("a@x.com"), row("b@y.com"))

SubmitScan(w) ==
    \E fn \in ScanFns, limit \in Limits :
        /\ job[w].pc = "idle"
        /\ job' = [job EXCEPT ![w] = [IdleFrame EXCEPT !.fn = fn, !.pc = "reset",
                                                       !.limit = limit]]
        /\ calls' = [calls EXCEPT ![w] = <<>>]
        /\ UNCHANGED <<state, heap, scan_results, delete_scan_results, mailbox, held>>

\* reset_scan / reset_delete_scan without the assignment to the results list.
Mutant_ScReset_KeepsResults(w) ==
    /\ job[w].pc = "reset"
    /\ job[w].fn \in ScanFns
    /\ LET b == Bind(state, heap, ResetTargets(Slot(job[w].fn)))
       IN  /\ state' = b.st
           /\ heap' = Collect(b.st, b.h, held.ref)
    /\ job' = [job EXCEPT ![w].pc = "sc_connect_message",
                          ![w].own = Fresh(Slot(job[w].fn)),
                          ![w].raced = FALSE]
    /\ UNCHANGED <<scan_results, delete_scan_results, mailbox, calls, held>>

\* state.reset_scan() / reset_delete_scan() / reset_mark_read(): the scan kinds
\* empty their results list and bind their status to a new dict.
ScReset(w) ==
    /\ job[w].pc = "reset"
    /\ job[w].fn \in ScanFns
    /\ LET b == Bind(state, heap, ResetTargets(Slot(job[w].fn)))
       IN  /\ state' = b.st
           /\ heap' = Collect(b.st, b.h, held.ref)
    /\ scan_results' = IF job[w].fn = Scan THEN <<>> ELSE scan_results
    /\ delete_scan_results' = IF job[w].fn = DeleteScan THEN <<>> ELSE delete_scan_results
    /\ job' = [job EXCEPT ![w].pc = "sc_connect_message",
                          ![w].own = Fresh(Slot(job[w].fn)),
                          ![w].raced = \E v \in Workers \ {w} :
                                          /\ job[v].fn = job[w].fn
                                          /\ job[v].pc \notin {"idle", "reset", "returned"}]
    /\ UNCHANGED <<mailbox, calls, held>>

\* state.<slot>["message"] = "Connecting to Gmail..."
ScConnectMessage(w) ==
    /\ job[w].pc = "sc_connect_message"
    /\ Put(w, "message", <<"Connecting to Gmail...">>, "sc_auth")

\* service, error = get_gmail_service()
ScAuth(w) ==
    /\ job[w].pc = "sc_auth"
    /\ \E error \in {None} \cup AuthErrors :
          /\ job' = [job EXCEPT ![w].pc = IF error # None THEN "sc_auth_error"
                                          ELSE "sc_fetch_message",
                                ![w].error = error]
          /\ calls' = [calls EXCEPT ![w] = Append(@, AuthCall(error))]
    /\ UNCHANGED <<state, heap, scan_results, delete_scan_results, mailbox, held>>

\* The scan jobs reporting a text of their own instead of the provider's.
Mutant_ScAuthError_OwnText(w) ==
    /\ job[w].pc = "sc_auth_error"
    /\ Put(w, "error", <<"Authentication failed">>, "sc_auth_done")

\* if error: state.<slot>["error"] = error; state.<slot>["done"] = True; return
ScAuthError(w) ==
    /\ job[w].pc = "sc_auth_error"
    /\ Put(w, "error", job[w].error, "sc_auth_done")

ScAuthDone(w) ==
    /\ job[w].pc = "sc_auth_done"
    /\ Put(w, "done", TRUE, "returned")

FetchMessage(fn) ==
    CASE fn = Scan -> <<"Fetching email list...">>
      [] fn = DeleteScan -> <<"Fetching emails...">>
      [] fn = MarkRead -> <<"Finding unread emails...">>

\* try: state.<slot>["message"] = "Fetching email list..."
ScFetchMessage(w) ==
    /\ job[w].pc = "sc_fetch_message"
    /\ Put(w, "message", FetchMessage(job[w].fn), "sc_list")

\* A listing loop that asks for a full page whatever is still needed.
Mutant_MaxResults_FullPage(f) == PageSize

\* maxResults of the next listing call: min(500, limit - len(message_ids))
MaxResults(f) == Min(PageSize, f.limit - f.messages)

\* The remote's answer to a messages.list call with this maxResults when
\* `have` matching messages were returned by the earlier pages.
ListPageOf(have, maxResults) ==
    LET left == Matching - have
        n == Min(maxResults, left)
    IN  [n |-> n, token |-> left > n]

\* After the listing: messages = messages[:limit] (scan_emails keeps the list
\* as it is); total = len(messages); the empty case, the "Found ..." message
\* of the scans, or the first batch.
AfterListing(f, listed) ==
    LET total == IF f.fn = Scan THEN listed ELSE Min(listed, f.limit)
    IN  [f EXCEPT !.messages = listed, !.total_emails = total, !.j = 0, !.processed = 0,
                  !.pc = IF total = 0 THEN "sc_empty_message"
                         ELSE IF f.fn = MarkRead THEN "sc_batch" ELSE "sc_found_message"]

\* A listing loop that stops after its first page.
Mutant_ScListReturned_OnePage(f, page) == AfterListing(f, f.messages + page.n)

\* A page arrived: the next page while the result has a nextPageToken and
\* fewer than `limit` ids are listed.
ScListReturned(f, page) ==
    IF page.token /\ f.messages + page.n < f.limit
    THEN [f EXCEPT !.messages = @ + page.n, !.pc = "sc_next_page"]
    ELSE AfterListing(f, f.messages + page.n)

\* except Exception as e: the exception of a remote call leaves the try block.
ScRaised(f, text) == [f EXCEPT !.error = <<text>>, !.pc = "sc_exc_error"]

\* The remote may answer with fewer ids than maxResults and still give a
\* nextPageToken; the model lets the first page of a listing do so, with one id.
ListPagesOf(have, maxResults, first) ==
    {ListPageOf(have, maxResults)} \cup
    (IF first /\ maxResults > 1 /\ Matching - have > 1
     THEN {[n |-> 1, token |-> TRUE]} ELSE {})

\* One service.users().messages().list(...).execute() of a scan job.
ScListCall(w, first) ==
    \E raises \in BOOLEAN, page \in ListPagesOf(job[w].messages, MaxResults(job[w]), first) :
        /\ raises => page = ListPageOf(job[w].messages, MaxResults(job[w]))
        /\ calls' = [calls EXCEPT ![w] =
                       Append(@, [op |-> "list", q |-> <<job[w].fn>>, i |-> 0,
                                  first |-> first, maxResults |-> MaxResults(job[w]),
                                  n |-> IF raises THEN 0 ELSE page.n,
                                  token |-> ~raises /\ page.token,
                                  ok |-> ~raises])]
        /\ job' = [job EXCEPT ![w] =
                     IF raises THEN ScRaised(job[w], "list failed")
                     ELSE ScListReturned(job[w], page)]
        /\ UNCHANGED <<state, heap, scan_results, delete_scan_results, mailbox, held>>

\* The first listing call.
ScList(w) ==
    /\ job[w].pc = "sc_list"
    /\ ScListCall(w, TRUE)

\* The listing calls with pageToken=...
ScNextPage(w) ==
    /\ job[w].pc = "sc_next_page"
    /\ ScListCall(w, FALSE)

EmptyScanMessage(fn) ==
    IF fn = MarkRead THEN <<"No unread emails found">> ELSE <<"No emails found">>

\* if not message_ids: message = "No emails found"; done = True; return
ScEmptyMessage(w) ==
    /\ job[w].pc = "sc_empty_message"
    /\ Put(w, "message", EmptyScanMessage(job[w].fn), "sc_empty_done")

ScEmptyDone(w) ==
    /\ job[w].pc = "sc_empty_done"
    /\ Put(w, "done", TRUE, "returned")

\* state.<slot>["message"] = f"Found {total} emails. Scanning..."
ScFoundMessage(w) ==
    /\ job[w].pc = "sc_found_message"
    /\ Put(w, "message",
           IF job[w].fn = Scan THEN <<"Found", job[w].total_emails, "emails. Scanning...">>
           ELSE <<"Scanning", job[w].total_emails, "emails...">>,
           "sc_batch")

\* len(message_ids[i:i + batch_size])
ScBatchLen(f) == Min(scan_batch_size, f.total_emails - f.j)

\* batch.execute() of up to 100 messages.get requests (the scans), or
\* batchModify(removeLabelIds=['UNREAD']) of up to 100 ids (mark-read).
ScBatch(w) ==
    /\ job[w].pc = "sc_batch"
    /\ \E raises \in BOOLEAN :
          /\ calls' = [calls EXCEPT ![w] =
                         Append(@, [op |-> IF job[w].fn = MarkRead THEN "batchModify"
                                           ELSE "batch_get",
                                    lo |-> job[w].j, hi |-> job[w].j + ScBatchLen(job[w]),
                                    body |-> [addLabelIds |-> <<>>,
                                              removeLabelIds |->
                                                 IF job[w].fn = MarkRead THEN <<"UNREAD">>
                                                 ELSE <<>>],
                                    ok |-> ~raises])]
          /\ job' = [job EXCEPT ![w] =
                       IF raises THEN ScRaised(job[w], "batch failed")
                       ELSE [job[w] EXCEPT !.processed = @ + ScBatchLen(job[w]),
                                           !.pc = "sc_progress"]]
    /\ UNCHANGED <<state, heap, scan_results, delete_scan_results, mailbox, held>>

\* state.<slot>["progress"] = int((i + len(batch_ids)) / total * 100)
ScProgress(w) ==
    /\ job[w].pc = "sc_progress"
    /\ Put(w, "progress", Pct(job[w].j + ScBatchLen(job[w]), job[w].total_emails, 100),
           "sc_message")

BatchMessage(f) ==
    CASE f.fn = Scan -> <<"Scanned", f.processed, "/", f.total_emails, "emails",
                          Len(SubscriptionRows(f.processed)), "found">>
      [] f.fn = DeleteScan -> <<"Scanned", f.processed, "/", f.total_emails, "emails">>
      [] f.fn = MarkRead -> <<"Marked", f.processed, "/", f.total_emails, "as read">>

\* The next value of range(0, total, batch_size), or the code after the loop.
NextBatch(f) ==
    [f EXCEPT !.j = @ + scan_batch_size,
              !.pc = IF f.j + scan_batch_size < f.total_emails THEN "sc_batch"
                     ELSE IF f.fn = MarkRead THEN "sc_fin_message" ELSE "sc_publish"]

\* state.<slot>["message"] = f"Scanned {processed}/{total} emails ..."
ScMessage(w) ==
    /\ job[w].pc = "sc_message"
    /\ Write(Slot(job[w].fn), "message", BatchMessage(job[w]))
    /\ job' = [job EXCEPT ![w] =
                 [(IF job[w].fn = MarkRead THEN [job[w] EXCEPT !.pc = "sc_marked_count"]
                   ELSE NextBatch(job[w]))
                  EXCEPT !.own = [@ EXCEPT !.message = BatchMessage(job[w])]]]
    /\ UNCHANGED <<state, scan_results, delete_scan_results, mailbox, calls, held>>

\* state.mark_read_status["marked_count"] = marked
ScMarkedCount(w) ==
    /\ job[w].pc = "sc_marked_count"
    /\ Write(Slot(job[w].fn), "marked_count", job[w].processed)
    /\ job' = [job EXCEPT ![w] =
                 [NextBatch(job[w]) EXCEPT !.own = [@ EXCEPT !.marked_count = job[w].processed]]]
    /\ UNCHANGED <<state, scan_results, delete_scan_results, mailbox, calls, held>>

\* state.scan_results = sorted_results / state.delete_scan_results = sorted_senders
ScPublish(w) ==
    /\ job[w].pc = "sc_publish"
    /\ scan_results' = IF job[w].fn = Scan THEN SubscriptionRows(job[w].processed)
                       ELSE scan_results
    /\ delete_scan_results' = IF job[w].fn = DeleteScan THEN SenderRows(job[w].processed)
                              ELSE delete_scan_results
    /\ job' = [job EXCEPT ![w].pc = "sc_fin_message"]
    /\ UNCHANGED <<state, heap, mailbox, calls, held>>

\* The last message: scan_emails reads len(state.scan_results) again.
FinScanMessage(f) ==
    CASE f.fn = Scan -> <<"Found", Len(scan_results), "subscriptions">>
      [] f.fn = DeleteScan -> <<"Found", Len(SenderRows(f.processed)), "senders">>
      [] f.fn = MarkRead -> <<"Done! Marked", f.processed, "emails as read">>

ScFinMessage(w) ==
    /\ job[w].pc = "sc_fin_message"
    /\ Put(w, "message", FinScanMessage(job[w]), "sc_fin_done")

\* state.<slot>["done"] = True
ScFinDone(w) ==
    /\ job[w].pc = "sc_fin_done"
    /\ Put(w, "done", TRUE, "returned")

\* except Exception as e: state.<slot>["error"] = str(e); state.<slot>["done"] = True
ScExcError(w) ==
    /\ job[w].pc = "sc_exc_error"
    /\ Put(w, "error", job[w].error, "sc_exc_done")

\* An except clause that records the error and forgets done.
Mutant_ScExcDone_Forgotten(w) ==
    /\ job[w].pc = "sc_exc_done"
    /\ Put(w, "done", FALSE, "returned")

ScExcDone(w) ==
    /\ job[w].pc = "sc_exc_done"
    /\ Put(w, "done", TRUE, "returned")

\* One step of a scan or mark-read job run by worker w.
ScanStep(w) ==
    \/ ScReset(w)
    \/ ScConnectMessage(w)
    \/ ScAuth(w)
    \/ ScAuthError(w)
    \/ ScAuthDone(w)
    \/ ScFetchMessage(w)
    \/ ScList(w)
    \/ ScNextPage(w)
    \/ ScEmptyMessage(w)
    \/ ScEmptyDone(w)
    \/ ScFoundMessage(w)
    \/ ScBatch(w)
    \/ ScProgress(w)
    \/ ScMessage(w)
    \/ ScMarkedCount(w)
    \/ ScPublish(w)
    \/ ScFinMessage(w)
    \/ ScFinDone(w)
    \/ ScExcError(w)
    \/ ScExcDone(w)

----------------------------------------------------------------------------
(* build_gmail_query, _get_unsubscribe_from_headers and unsubscribe_single  *)
(* of src/app/services/gmail.py.  A call is a worker's frame: `args` holds  *)
(* the arguments and `ret` the value returned.  A Python str is a tuple of  *)
(* pieces (an f-string is the tuple of its parts), '' is the empty tuple.   *)

BuildGmailQuery == "build_gmail_query"
GetUnsubscribeFromHeaders == "_get_unsubscribe_from_headers"
UnsubscribeSingle == "unsubscribe_single"

\* Python truthiness of an Optional[str]
Truthy(v) == v # None /\ v # <<>>

\* The fields of FiltersModel, in the order the class declares them.
FilterKeys == <<"older_than", "after_date", "before_date", "larger_than",
                "category", "sender", "label">>

\* A value the request may carry in each field.
FilterValue ==
    [older_than |-> <<"30d">>, after_date |-> <<"2025/01/15">>,
     before_date |-> <<"2025/02/01">>, larger_than |-> <<"5M">>,
     category |-> <<"promotions">>, sender |-> <<"promo@shop.com">>,
     label |-> <<"Receipts">>]

\* filters.get(key, ''): the value of the first item with that key.
Get(d, key) ==
    LET hits == SelectSeq(d, LAMBDA p : p[1] = key)
    IN  IF hits = <<>> THEN <<>> ELSE hits[1][2]

\* query_parts.append(f'{prefix}{v}') if v is truthy
Part(prefix, v) == IF Truthy(v) THEN << <<prefix>> \o v >> ELSE <<>>

\* The date tokens with older_than emitted next to an explicit date range.
Mutant_DateParts_AlwaysOlderThan(d) ==
    Part("after:", Get(d, "after_date")) \o Part("before:", Get(d, "before_date"))
        \o Part("older_than:", Get(d, "older_than"))

\* after_date, before_date, and older_than only if neither date is given.
DateParts(d) ==
    LET after_date == Get(d, "after_date")
        before_date == Get(d, "before_date")
    IN  Part("after:", after_date) \o Part("before:", before_date)
            \o (IF ~Truthy(after_date) /\ ~Truthy(before_date)
                THEN Part("older_than:", Get(d, "older_than")) ELSE <<>>)

\* The remaining tokens appended in the order the dict holds its items.
Mutant_OtherParts_InputOrder(d) ==
    LET prefix == [larger_than |-> "larger:", category |-> "category:",
                   sender |-> "from:", label |-> "label:"]
        RECURSIVE walk(_)
        walk(items) ==
            IF items = <<>> THEN <<>>
            ELSE (IF Head(items)[1] \in DOMAIN prefix
                  THEN Part(prefix[Head(items)[1]], Head(items)[2]) ELSE <<>>)
                 \o walk(Tail(items))
    IN  walk(d)

\* larger_than, category, sender, label
OtherParts(d) ==
    Part("larger:", Get(d, "larger_than")) \o Part("category:", Get(d, "category"))
        \o Part("from:", Get(d, "sender")) \o Part("label:", Get(d, "label"))

\* ' '.join(parts)
RECURSIVE Join(_)
Join(parts) ==
    IF parts = <<>> THEN <<>>
    ELSE IF Len(parts) = 1 THEN parts[1]
    ELSE parts[1] \o <<" ">> \o Join(Tail(parts))

\* filters is None, a dict (its items in insertion order) or a FiltersModel,
\* which model_dump(exclude_none=True) turns into a dict.
build_gmail_query(filters) ==
    IF filters.kind = "None" \/ (filters.kind = "dict" /\ filters.items = <<>>) THEN <<>>
    ELSE LET d == IF filters.kind = "model"
                  THEN SelectSeq(filters.items, LAMBDA p : p[2] # None)
                  ELSE filters.items
         IN  Join(DateParts(d) \o OtherParts(d))

\* What a field of the request holds: None, '' or a value.
FieldValue(key, c) ==
    CASE c = "none" -> None
      [] c = "empty" -> <<>>
      [] c = "value" -> FilterValue[key]

FieldChoices == {"none", "empty", "value"}

\* A dict: its keys in insertion order, no key twice, and what each holds.
DictKeys(keys) == \A a, b \in DOMAIN keys : a # b => keys[a] # keys[b]

DictItems(keys, c) == [i \in DOMAIN keys |-> <<keys[i], FieldValue(keys[i], c[i])>>]

\* The FiltersModel instances: every field set, in declaration order.
ModelItems ==
    {[i \in 1..Len(FilterKeys) |-> <<FilterKeys[i], FieldValue(FilterKeys[i], c[i])>>] :
        c \in [1..Len(FilterKeys) -> FieldChoices]}

\* The filters of the model that are not dicts: None and the FiltersModel
\* instances.
FilterSets ==
    {[kind |-> "None", items |-> <<>>]}
        \cup {[kind |-> "model", items |-> it] : it \in ModelItems}

\* return ' '.join(query_parts)
BuildGmailQueryReturn(w) ==
    /\ job[w].fn = BuildGmailQuery
    /\ job[w].pc = "call"
    /\ job' = [job EXCEPT ![w].ret = build_gmail_query(job[w].args), ![w].pc = "returned"]
    /\ UNCHANGED <<state, heap, scan_results, delete_scan_results, mailbox, calls, held>>

(* _get_unsubscribe_from_headers.  A header value is a tuple of tokens: "<", *)
(* ">", a scheme ("https://", "http://", "mailto:") or other text.          *)

HeaderTokens == {"<", ">", "https://", "mailto:", "u"}

\* name.lower() of the header names of the model
Lower(name) ==
    CASE name \in {"List-Unsubscribe", "list-unsubscribe"} -> "list-unsubscribe"
      [] name \in {"List-Unsubscribe-Post", "LIST-UNSUBSCRIBE-POST"} -> "list-unsubscribe-post"
      [] name \in {"From", "from"} -> "from"
      [] OTHER -> name

\* Where re.findall(r'<(scheme[^>]+)>', value) finds a match that starts at
\* token i: "<", the scheme, at least one more token that is not ">", and a
\* closing ">" after it.
MatchAt(value, i, schemes) ==
    /\ i + 3 <= Len(value)
    /\ value[i] = "<"
    /\ value[i + 1] \in schemes
    /\ value[i + 2] # ">"
    /\ \E j \in (i + 3)..Len(value) : value[j] = ">"

\* re.findall(...)[0], or None when the list is empty: the group of the
\* leftmost match, which ends before the first ">" that follows.
FirstUrl(value, schemes) ==
    LET starts == {i \in 1..Len(value) : MatchAt(value, i, schemes)}
    IN  IF starts = {} THEN None
        ELSE LET i == CHOOSE a \in starts : \A b \in starts : a <= b
                 j == CHOOSE a \in (i + 3)..Len(value) :
                         /\ value[a] = ">"
                         /\ \A b \in (i + 3)..(a - 1) : value[b] # ">"
             IN  SubSeq(value, i + 1, j - 1)

HttpSchemes == {"https://", "http://"}

\* for h in headers: if h['name'].lower() == 'list-unsubscribe-post'
HasPostHeader(headers) ==
    \E k \in 1..Len(headers) : Lower(headers[k].name) = "list-unsubscribe-post"

\* A classification that takes every bracketed HTTP(S) URL for one-click.
Mutant_ClassifyHeader_IgnoresPost(headers, value) ==
    IF FirstUrl(value, HttpSchemes) # None THEN <<FirstUrl(value, HttpSchemes), <<"one-click">> >>
    ELSE IF FirstUrl(value, {"mailto:"}) # None THEN <<FirstUrl(value, {"mailto:"}), <<"manual">> >>
    ELSE <<None, None>>

\* The body of the loop for one List-Unsubscribe header: the pair returned, or
\* (None, None) when the loop goes on to the next header.
ClassifyHeader(headers, value) ==
    LET urls == FirstUrl(value, HttpSchemes)
        mailto == FirstUrl(value, {"mailto:"})
    IN  IF HasPostHeader(headers) /\ urls # None THEN <<urls, <<"one-click">> >>
        ELSE IF urls # None THEN <<urls, <<"manual">> >>
        ELSE IF mailto # None THEN <<mailto, <<"manual">> >>
        ELSE <<None, None>>

\* for header in headers: ... return None, None, from the k-th header on.
RECURSIVE get_unsubscribe_from_headers(_, _)
get_unsubscribe_from_headers(headers, k) ==
    IF k > Len(headers) THEN <<None, None>>
    ELSE IF Lower(headers[k].name) = "list-unsubscribe"
              /\ ClassifyHeader(headers, headers[k].value) # <<None, None>>
         THEN ClassifyHeader(headers, headers[k].value)
         ELSE get_unsubscribe_from_headers(headers, k + 1)

\* The List-Unsubscribe values of the model beside the values of at most
\* MaxValueLen tokens: plain HTTP, and the values that give two addresses.
ListValues ==
    {<<"<", "http://", "u", ">">>,
     <<"<", "mailto:", "u", ">", ",", "<", "https://", "u", ">">>,
     <<"<", "https://", "u", ">", ",", "<", "mailto:", "u", ">">>}

FromPromo == [name |-> "From", value |-> <<"Promo ", "<", "promo", "@", "shop.com", ">">>]

\* A List-Unsubscribe field among the other fields of a message: alone,
\* before or after List-Unsubscribe-Post, after From.
HeaderShapes == 1..5

HeadersWith(h, shape) ==
    LET post(n) == [name |-> n, value |-> <<"List-Unsubscribe=One-Click">>]
    IN  CASE shape = 1 -> <<h>>
          [] shape = 2 -> <<h, post("List-Unsubscribe-Post")>>
          [] shape = 3 -> <<post("List-Unsubscribe-Post"), h>>
          [] shape = 4 -> <<FromPromo, h, post("LIST-UNSUBSCRIBE-POST")>>
          [] shape = 5 -> <<FromPromo, h>>

HeaderNames == {"List-Unsubscribe", "list-unsubscribe"}

\* The header lists of the model beside those of one List-Unsubscribe field
\* of at most MaxValueLen tokens: no such field, a field of a value of
\* ListValues, and two List-Unsubscribe fields, each with an HTTPS URL, a
\* mailto: address or neither.
HeaderLists ==
    LET post(n) == [name |-> n, value |-> <<"List-Unsubscribe=One-Click">>]
        lu(v) == [name |-> "List-Unsubscribe", value |-> v]
        twice == {<<"<", "https://", "u", ">">>, <<"<", "mailto:", "u", ">">>, <<"u">>}
    IN  {<<>>, <<FromPromo>>, <<post("List-Unsubscribe-Post")>>}
        \cup {HeadersWith([name |-> n, value |-> v], shape) :
                 n \in HeaderNames, v \in ListValues, shape \in HeaderShapes}
        \cup {<<lu(a), lu(b)>> : a, b \in twice}
        \cup {<<lu(a), lu(b), post("List-Unsubscribe-Post")>> : a, b \in twice}

\* return urls[0], "one-click" / ... / return None, None
GetUnsubscribeReturn(w) ==
    /\ job[w].fn = GetUnsubscribeFromHeaders
    /\ job[w].pc = "call"
    /\ job' = [job EXCEPT ![w].ret = get_unsubscribe_from_headers(job[w].args, 1),
                          ![w].pc = "returned"]
    /\ UNCHANGED <<state, heap, scan_results, delete_scan_results, mailbox, calls, held>>

(* unsubscribe_single(domain, link).  A link is a tuple <<scheme, host,     *)
(* path>>, the empty tuple being ''.  The result dict is a record in which *)
(* a key the dict does not have is None.                                   *)

UnsubLinks ==
    {<<>>, <<"mailto:", "u@shop.com">>, <<"MAILTO:", "u@shop.com">>,
     <<"https://", "shop.com", "/u">>, <<"http://", "shop.com", "/u">>,
     <<"ftp://", "shop.com", "/u">>, <<"https://", "", "/u">>}

\* The status codes urlopen can return a response with: it raises HTTPError
\* on 4xx and 5xx and follows redirects itself.
HttpStatuses == {200, 204, 205}

Result(success, message, type, domain) ==
    [success |-> success, message |-> message, type |-> type, domain |-> domain]

\* urlparse(url).scheme not in ('http', 'https'), or no hostname
UrlIsValid(link) == link[1] \in {"https://", "http://"} /\ link[2] # ""

\* A call that returns with the result r.
UsReturn(w, r) ==
    /\ job' = [job EXCEPT ![w].ret = r, ![w].pc = "returned"]
    /\ UNCHANGED <<state, heap, scan_results, delete_scan_results, mailbox, held>>

\* if not link: return {"success": False, "message": "No unsubscribe link provided"}
UsNoLink(w) ==
    /\ job[w].fn = UnsubscribeSingle
    /\ job[w].pc = "call"
    /\ job[w].args.link = <<>>
    /\ UsReturn(w, Result(FALSE, <<"No unsubscribe link provided">>, None, None))
    /\ UNCHANGED calls

\* if link.startswith('mailto:'): return {"success": False, ..., "type": "mailto"}
UsMailto(w) ==
    /\ job[w].fn = UnsubscribeSingle
    /\ job[w].pc = "call"
    /\ job[w].args.link # <<>>
    /\ job[w].args.link[1] = "mailto:"
    /\ UsReturn(w, Result(FALSE, <<"Email-based unsubscribe - open in email client">>,
                          <<"mailto">>, None))
    /\ UNCHANGED calls

\* _validate_unsafe_url up to the name resolution: a scheme other than http
\* and https, or a URL without hostname, is a ValueError.
UsCheckUrl(w) ==
    /\ job[w].fn = UnsubscribeSingle
    /\ job[w].pc = "call"
    /\ job[w].args.link # <<>>
    /\ job[w].args.link[1] # "mailto:"
    /\ IF UrlIsValid(job[w].args.link)
       THEN /\ job' = [job EXCEPT ![w].pc = "us_resolve"]
            /\ UNCHANGED <<state, heap, scan_results, delete_scan_results, mailbox, held>>
       ELSE UsReturn(w, Result(FALSE, <<"Security Error: ", "Invalid URL">>, None, None))
    /\ UNCHANGED calls

\* socket.gethostbyname(hostname): the name does not resolve, resolves to a
\* private, loopback or link-local address, or to a public one.
UsResolve(w) ==
    /\ job[w].pc = "us_resolve"
    /\ \E answer \in {"gaierror", "restricted", "public"} :
          /\ calls' = [calls EXCEPT ![w] =
                         Append(@, [op |-> "resolve", host |-> job[w].args.link[2],
                                    answer |-> answer])]
          /\ IF answer = "public"
             THEN /\ job' = [job EXCEPT ![w].pc = "us_post"]
                  /\ UNCHANGED <<state, heap, scan_results, delete_scan_results, mailbox, held>>
             ELSE UsReturn(w, Result(FALSE, <<"Security Error: ", answer>>, None, None))

\* One urlopen(req, timeout=10): it raises, or returns a response.
Request(w, method, raises, status) ==
    calls' = [calls EXCEPT ![w] =
                Append(@, [op |-> method, raised |-> raises,
                           status |-> IF raises THEN 0 ELSE status])]

\* The POST with data List-Unsubscribe=One-Click: success on 200, 201, 202 and
\* 204; any other status, and any exception, goes on to the GET.
UsPost(w) ==
    /\ job[w].pc = "us_post"
    /\ \E raises \in BOOLEAN, status \in HttpStatuses :
          /\ raises => status = 200
          /\ Request(w, "POST", raises, status)
          /\ IF ~raises /\ status \in {200, 201, 202, 204}
             THEN UsReturn(w, Result(TRUE, <<"Unsubscribed successfully">>, None,
                                     job[w].args.domain))
             ELSE /\ job' = [job EXCEPT ![w].pc = "us_get"]
                  /\ UNCHANGED <<state, heap, scan_results, delete_scan_results, mailbox, held>>

\* The GET: success on 200, 201, 202, 204, 301 and 302; an exception is
\* reported with its text.
UsGet(w) ==
    /\ job[w].pc = "us_get"
    /\ \E raises \in BOOLEAN, status \in HttpStatuses :
          /\ raises => status = 200
          /\ Request(w, "GET", raises, status)
          /\ UsReturn(w,
                IF raises THEN Result(FALSE, <<"urlopen error">>, None, None)
                ELSE IF status \in {200, 201, 202, 204, 301, 302}
                THEN Result(TRUE, <<"Unsubscribed (confirmation may be needed)">>, None,
                            job[w].args.domain)
                ELSE Result(FALSE, <<"Server returned status ", status>>, None, None))

\* A call of the model: worker w1 about to run a function on its arguments.
Calls(fn, args) ==
    [w \in Workers |->
        IF w = "w1" THEN [IdleFrame EXCEPT !.fn = fn, !.pc = "call", !.args = args]
        ELSE IdleFrame]

----------------------------------------------------------------------------
(* The batch loop of scan_emails and scan_senders_for_delete, one message   *)
(* at a time: batch.execute() calls process_message once for every request *)
(* of the batch, with the response or with the exception of that request.  *)
(* The rows keep the fields the results are keyed, counted and classified   *)
(* by; sender name, subjects, dates and sizes are left out.  A dict is the  *)
(* sequence of its rows in insertion order.                                 *)

FromNews == [name |-> "From", value |-> <<"news", "@", "site.com">>]
FromBob == [name |-> "from", value |-> <<"Bob ", "<", "bob", "@", "site.com", ">">>]

\* payload.headers of the messages the remote holds: two messages of
\* promo@shop.com with an HTTPS List-Unsubscribe link, one of them with
\* List-Unsubscribe-Post, a message of news@site.com with a mailto link, and
\* a message without List-Unsubscribe.
PromoOneClick ==
    <<FromPromo, [name |-> "List-Unsubscribe", value |-> <<"<", "https://", "shop.com/u", ">">>],
      [name |-> "List-Unsubscribe-Post", value |-> <<"List-Unsubscribe=One-Click">>]>>
PromoManual ==
    <<FromPromo, [name |-> "List-Unsubscribe", value |-> <<"<", "https://", "shop.com/u", ">">>]>>
NewsManual ==
    <<FromNews, [name |-> "List-Unsubscribe", value |-> <<"<", "mailto:", "off@site.com", ">">>]>>
Plain == <<FromBob>>
Mail == {PromoOneClick, PromoManual, NewsManual, Plain}

\* What one request of a batch brings to the callback.
Responses ==
    {[exception |-> TRUE, headers |-> <<>>]}
        \cup {[exception |-> FALSE, headers |-> h] : h \in Mail}

\* _get_sender_info(headers)[1]: the address between the first "<" that
\* opens a non-empty bracket and the next ">", else the whole From value,
\* else "unknown".
SenderEmail(headers) ==
    LET froms == SelectSeq(headers, LAMBDA h : Lower(h.name) = "from")
    IN  IF froms = <<>> THEN <<"unknown">>
        ELSE LET v == froms[1].value
                 opens == {i \in 1..Len(v) :
                              /\ v[i] = "<"
                              /\ i + 2 <= Len(v)
                              /\ v[i + 1] # ">"
                              /\ \E j \in (i + 2)..Len(v) : v[j] = ">"}
             IN  IF opens = {} THEN v
                 ELSE LET i == CHOOSE a \in opens : \A b \in opens : a <= b
                          j == CHOOSE a \in (i + 2)..Len(v) :
                                  /\ v[a] = ">"
                                  /\ \A b \in (i + 2)..(a - 1) : v[b] # ">"
                      IN  SubSeq(v, i + 1, j - 1)

\* sender_email.split('@')[-1] if '@' in sender_email else sender_email
Domain(email) ==
    LET ats == {i \in 1..Len(email) : email[i] = "@"}
    IN  IF ats = {} THEN email
        ELSE SubSeq(email, (CHOOSE a \in ats : \A b \in ats : a >= b) + 1, Len(email))

\* The position of the row with this key, 0 if the dict has none.
RowOf(data, key) ==
    IF \E i \in 1..Len(data) : data[i].key = key
    THEN CHOOSE i \in 1..Len(data) : data[i].key = key
    ELSE 0

\* process_message of scan_emails after `if exception: return`: a message with
\* an unsubscribe link adds to the row of its sender's domain and overwrites
\* the row's link and type.
ScanRow(data, headers) ==
    LET unsub == get_unsubscribe_from_headers(headers, 1)
        key == Domain(SenderEmail(headers))
        at == RowOf(data, key)
    IN  IF unsub[1] = None THEN data
        ELSE IF at = 0
        THEN Append(data, [key |-> key, link |-> unsub[1], count |-> 1, type |-> unsub[2],
                           email |-> SenderEmail(headers)])
        ELSE [data EXCEPT ![at] = [@ EXCEPT !.link = unsub[1], !.count = @ + 1,
                                            !.type = unsub[2],
                                            !.email = SenderEmail(headers)]]

\* A callback that starts a new row for every message.
Mutant_SenderRow_NewRowEachTime(data, headers, msg_id) ==
    IF SenderEmail(headers) = <<>> THEN data
    ELSE Append(data, [key |-> SenderEmail(headers), count |-> 1, message_ids |-> <<msg_id>>])

\* process_message of scan_senders_for_delete after `if exception: return`:
\* a message with a sender address adds to the row of that address.
SenderRow(data, headers, msg_id) ==
    LET key == SenderEmail(headers)
        at == RowOf(data, key)
    IN  IF key = <<>> THEN data
        ELSE IF at = 0
        THEN Append(data, [key |-> key, count |-> 1, message_ids |-> <<msg_id>>])
        ELSE [data EXCEPT ![at] = [@ EXCEPT !.count = @ + 1,
                                            !.message_ids = Append(@, msg_id)]]

\* A sort that puts a row behind the rows of the same count found after it.
RECURSIVE Mutant_SortedByCount_TiesReversed(_)
Mutant_SortedByCount_TiesReversed(rows) ==
    IF rows = <<>> THEN <<>>
    ELSE LET rest == Mutant_SortedByCount_TiesReversed(Tail(rows))
             k == Cardinality({i \in 1..Len(rest) : rest[i].count >= Head(rows).count})
         IN  SubSeq(rest, 1, k) \o <<Head(rows)>> \o SubSeq(rest, k + 1, Len(rest))

\* sorted(rows, key=lambda x: x["count"], reverse=True): Python's sort is
\* stable, also with reverse=True, so a row stays before the rows of the same
\* count that follow it in the dict.
RECURSIVE SortedByCount(_)
SortedByCount(rows) ==
    IF rows = <<>> THEN <<>>
    ELSE LET rest == SortedByCount(Tail(rows))
             k == Cardinality({i \in 1..Len(rest) : rest[i].count > Head(rows).count})
         IN  SubSeq(rest, 1, k) \o <<Head(rows)>> \o SubSeq(rest, k + 1, Len(rest))

\* A scan of a mailbox of at most MaxInbox messages.
SubmitItemScan(w) ==
    \E fn \in {Scan, DeleteScan}, limit \in Limits :
        /\ job[w].pc = "idle"
        /\ Matching <= MaxInbox
        /\ job' = [job EXCEPT ![w] = [IdleFrame EXCEPT !.fn = fn, !.pc = "reset",
                                                       !.limit = limit]]
        /\ calls' = [calls EXCEPT ![w] = <<>>]
        /\ UNCHANGED <<state, heap, scan_results, delete_scan_results, mailbox, held>>

\* batch.execute(): the HTTP request of the batch fails, or the callback is
\* called for each request of the batch.
ItExecute(w) ==
    /\ job[w].pc = "sc_batch"
    /\ job[w].fn \in {Scan, DeleteScan}
    /\ \E raises \in BOOLEAN :
          /\ calls' = [calls EXCEPT ![w] =
                         Append(@, [op |-> "batch_get", lo |-> job[w].j,
                                    hi |-> job[w].j + ScBatchLen(job[w]),
                                    body |-> [addLabelIds |-> <<>>, removeLabelIds |-> <<>>],
                                    ok |-> ~raises])]
          /\ job' = [job EXCEPT ![w] =
                       IF raises THEN ScRaised(job[w], "batch failed")
                       ELSE [job[w] EXCEPT !.pc = "it_callback"]]
    /\ UNCHANGED <<state, heap, scan_results, delete_scan_results, mailbox, held>>

\* A callback that does not count the requests that failed.
Mutant_ProcessMessage_CountsSuccesses(f, response) ==
    [f EXCEPT !.processed = IF response.exception THEN @ ELSE @ + 1,
              !.responses = Append(@, response),
              !.unsubscribe_data =
                  IF response.exception \/ f.fn # Scan THEN @
                  ELSE ScanRow(@, response.headers),
              !.sender_counts =
                  IF response.exception \/ f.fn # DeleteScan THEN @
                  ELSE SenderRow(@, response.headers, Len(f.responses))]

\* process_message(request_id, response, exception) for the next request of
\* the batch (the ids are 0, 1, ... in the order of the requests):
\* processed += 1; if exception: return; ...
ProcessMessage(f, response) ==
    [f EXCEPT !.processed = @ + 1,
              !.responses = Append(@, response),
              !.unsubscribe_data =
                  IF response.exception \/ f.fn # Scan THEN @
                  ELSE ScanRow(@, response.headers),
              !.sender_counts =
                  IF response.exception \/ f.fn # DeleteScan THEN @
                  ELSE SenderRow(@, response.headers, Len(f.responses))]

\* One call of the callback; after the last request of the batch
\* batch.execute() returns.
ItCallback(w) ==
    /\ job[w].pc = "it_callback"
    /\ \E response \in Responses :
          job' = [job EXCEPT ![w] =
                    [ProcessMessage(job[w], response) EXCEPT
                        !.pc = IF Len(job[w].responses) + 1 = job[w].j + ScBatchLen(job[w])
                               THEN "sc_progress" ELSE "it_callback"]]
    /\ UNCHANGED <<state, heap, scan_results, delete_scan_results, mailbox, calls, held>>

\* f"Scanned {processed}/{total} emails ({len(unsubscribe_data)} found)"
ItBatchMessage(f) ==
    IF f.fn = Scan
    THEN <<"Scanned", f.processed, "/", f.total_emails, "emails",
           Len(f.unsubscribe_data), "found">>
    ELSE <<"Scanned", f.processed, "/", f.total_emails, "emails">>

ItMessage(w) ==
    /\ job[w].pc = "sc_message"
    /\ Write(Slot(job[w].fn), "message", ItBatchMessage(job[w]))
    /\ job' = [job EXCEPT ![w] =
                 [NextBatch(job[w]) EXCEPT !.own = [@ EXCEPT !.message = ItBatchMessage(job[w])]]]
    /\ UNCHANGED <<state, scan_results, delete_scan_results, mailbox, calls, held>>

\* state.scan_results = sorted(...) / state.delete_scan_results = sorted(...)
ItPublish(w) ==
    /\ job[w].pc = "sc_publish"
    /\ scan_results' = IF job[w].fn = Scan THEN SortedByCount(job[w].unsubscribe_data)
                       ELSE scan_results
    /\ delete_scan_results' = IF job[w].fn = DeleteScan
                              THEN SortedByCount(job[w].sender_counts)
                              ELSE delete_scan_results
    /\ job' = [job EXCEPT ![w].pc = "sc_fin_message"]
    /\ UNCHANGED <<state, heap, mailbox, calls, held>>

\* f"Found {len(state.scan_results)} subscriptions" / f"Found {len(sorted_senders)} senders"
ItFinMessage(w) ==
    /\ job[w].pc = "sc_fin_message"
    /\ Put(w, "message",
           IF job[w].fn = Scan THEN <<"Found", Len(scan_results), "subscriptions">>
           ELSE <<"Found", Len(job[w].sender_counts), "senders">>,
           "sc_fin_done")

\* One step of a scan whose batch loop is followed message by message.
ItemScanStep(w) ==
    \/ ScReset(w)
    \/ ScConnectMessage(w)
    \/ ScAuth(w)
    \/ ScAuthError(w)
    \/ ScAuthDone(w)
    \/ ScFetchMessage(w)
    \/ ScList(w)
    \/ ScNextPage(w)
    \/ ScEmptyMessage(w)
    \/ ScEmptyDone(w)
    \/ ScFoundMessage(w)
    \/ ItExecute(w)
    \/ ItCallback(w)
    \/ ScProgress(w)
    \/ ItMessage(w)
    \/ ItPublish(w)
    \/ ItFinMessage(w)
    \/ ScFinDone(w)
    \/ ScExcError(w)
    \/ ScExcDone(w)

----------------------------------------------------------------------------
(* delete_emails_by_sender(sender), which the /delete-emails endpoint calls *)
(* in the event loop while background tasks run in the thread pool.  The    *)
(* call is a worker's frame: `args` holds the sender, `ret` the dict        *)
(* returned (without size_freed), `rows` the list the comprehension at the  *)
(* end of the function iterates over.                                       *)

DeleteBySender == "delete_emails_by_sender"

by_sender_batch_size == 100

\* The dict the function returns.
Outcome(success, deleted, message) ==
    [success |-> success, deleted |-> deleted, message |-> message]

SubmitDeleteBySender(w) ==
    \E sender \in Senders \cup {""} :
        /\ job[w].pc = "idle"
        /\ job' = [job EXCEPT ![w] = [IdleFrame EXCEPT !.fn = DeleteBySender,
                                                       !.pc = "bs_start",
                                                       !.args = [sender |-> sender]]]
        /\ calls' = [calls EXCEPT ![w] = <<>>]
        /\ UNCHANGED <<state, heap, scan_results, delete_scan_results, mailbox, held>>

\* return {...}
BsReturn(w, r) ==
    job' = [job EXCEPT ![w].ret = r, ![w].pc = "returned"]

\* if not sender: return {"success": False, "deleted": 0, ...}
BsNoSender(w) ==
    /\ job[w].fn = DeleteBySender
    /\ job[w].pc = "bs_start"
    /\ job[w].args.sender = ""
    /\ BsReturn(w, Outcome(FALSE, 0, <<"No sender specified">>))
    /\ UNCHANGED <<state, heap, scan_results, delete_scan_results, mailbox, calls, held>>

\* service, error = get_gmail_service(); if error: return {"success": False, ...}
BsAuth(w) ==
    /\ job[w].fn = DeleteBySender
    /\ job[w].pc = "bs_start"
    /\ job[w].args.sender # ""
    /\ \E error \in {None} \cup AuthErrors :
          /\ calls' = [calls EXCEPT ![w] = Append(@, AuthCall(error))]
          /\ IF error # None
             THEN BsReturn(w, Outcome(FALSE, 0, error))
             ELSE job' = [job EXCEPT ![w].pc = "bs_list"]
    /\ UNCHANGED <<state, heap, scan_results, delete_scan_results, mailbox, held>>

\* One messages.list call of the function: it raises (the except clause
\* returns the failure), or a page arrives; after the last page
\* `if not messages: return {"success": True, "deleted": 0, ...}`.
BsListCall(w, first) ==
    /\ job[w].fn = DeleteBySender
    /\ job[w].pc = IF first THEN "bs_list" ELSE "bs_next_page"
    /\ \E raises \in BOOLEAN :
          /\ calls' = [calls EXCEPT ![w] =
                         Append(@, [op |-> "list", q |-> <<"from", job[w].args.sender>>,
                                    first |-> first, ok |-> ~raises])]
          /\ IF raises
             THEN BsReturn(w, Outcome(FALSE, 0, <<"list failed">>))
             ELSE LET page == ListPage(job[w].args.sender, job[w].messages)
                      messages == job[w].messages + page.n
                  IN  IF page.token
                      THEN job' = [job EXCEPT ![w].messages = messages,
                                              ![w].pc = "bs_next_page"]
                      ELSE IF messages = 0
                      THEN BsReturn(w, Outcome(TRUE, 0, <<"No emails found">>))
                      ELSE job' = [job EXCEPT ![w].messages = messages,
                                              ![w].total_emails = messages,
                                              ![w].j = 0, ![w].deleted = 0,
                                              ![w].pc = "bs_call"]
    /\ UNCHANGED <<state, heap, scan_results, delete_scan_results, mailbox, held>>

BsList(w) ==
    /\ job[w].pc = "bs_list"
    /\ BsListCall(w, TRUE)

BsNextPage(w) ==
    /\ job[w].pc = "bs_next_page"
    /\ BsListCall(w, FALSE)

\* len(ids[i:i + batch_size])
BsBatchLen(f) == Min(by_sender_batch_size, f.total_emails - f.j)

\* One iteration of the batch loop: batchModify(...).execute() raises (the
\* except clause returns the failure), or deleted += len(batch).
BsCall(w) ==
    /\ job[w].fn = DeleteBySender
    /\ job[w].pc = "bs_call"
    /\ \E raises \in BOOLEAN :
          /\ calls' = [calls EXCEPT ![w] =
                         Append(@, [op |-> "batchModify", lo |-> job[w].j,
                                    hi |-> job[w].j + BsBatchLen(job[w]),
                                    body |-> [addLabelIds |-> <<"TRASH">>,
                                              removeLabelIds |-> <<>>],
                                    ok |-> ~raises])]
          /\ IF raises
             THEN BsReturn(w, Outcome(FALSE, 0, <<"batch failed">>))
             ELSE job' = [job EXCEPT ![w].deleted = @ + BsBatchLen(job[w]),
                                     ![w].j = @ + by_sender_batch_size,
                                     ![w].pc = IF job[w].j + by_sender_batch_size
                                                     < job[w].total_emails
                                               THEN "bs_call" ELSE "bs_read"]
    /\ UNCHANGED <<state, heap, scan_results, delete_scan_results, mailbox, held>>

\* [r for r in rows if r.get("email") != sender]
Mutant_WithoutSender_OnlySender(rows, sender) ==
    SelectSeq(rows, LAMBDA r : r.email = sender)

WithoutSender(rows, sender) ==
    SelectSeq(rows, LAMBDA r : r.email # sender)

\* The comprehension loads state.delete_scan_results, the list it iterates
\* over ...
BsRead(w) ==
    /\ job[w].fn = DeleteBySender
    /\ job[w].pc = "bs_read"
    /\ job' = [job EXCEPT ![w].rows = delete_scan_results, ![w].pc = "bs_write"]
    /\ UNCHANGED <<state, heap, scan_results, delete_scan_results, mailbox, calls, held>>

\* ... and the list it built is assigned to state.delete_scan_results; then
\* return {"success": True, "deleted": deleted, ...}.
BsWrite(w) ==
    /\ job[w].fn = DeleteBySender
    /\ job[w].pc = "bs_write"
    /\ delete_scan_results' = WithoutSender(job[w].rows, job[w].args.sender)
    /\ BsReturn(w, Outcome(TRUE, job[w].deleted,
                           <<"Moved", job[w].deleted, "emails to trash">>))
    /\ UNCHANGED <<state, heap, scan_results, mailbox, calls, held>>

\* One step of a delete_emails_by_sender call run by worker w.
DeleteBySenderStep(w) ==
    \/ BsNoSender(w)
    \/ BsAuth(w)
    \/ BsList(w)
    \/ BsNextPage(w)
    \/ BsCall(w)
    \/ BsRead(w)
    \/ BsWrite(w)

----------------------------------------------------------------------------
(* scan_emails of the legacy module src/gmail_api.py.  Its status is the    *)
(* module global scan_status, which the function rebinds to a new dict at   *)
(* its start and at each of its ends and writes field by field in between.  *)
(* The model runs one legacy scan and keeps the module's globals in the     *)
(* field `legacy` of the frame of the thread that runs it.                  *)

LegacyScan == "gmail_api.scan_emails"

legacy_batch_size == 100

\* A scan_status dict.
Status(progress, message, done, error) ==
    [progress |-> progress, message |-> message, done |-> done, error |-> error]

\* The globals as the module defines them.
LegacyGlobals ==
    [scan_status |-> Status(0, <<"Ready">>, FALSE, None), scan_results |-> <<>>]

SubmitLegacyScan(w) ==
    \E limit \in Limits :
        /\ job[w].pc = "idle"
        /\ job' = [job EXCEPT ![w] = [IdleFrame EXCEPT !.fn = LegacyScan, !.pc = "lg_reset",
                                                       !.limit = limit,
                                                       !.legacy = LegacyGlobals]]
        /\ calls' = [calls EXCEPT ![w] = <<>>]
        /\ UNCHANGED <<state, heap, scan_results, delete_scan_results, mailbox, held>>

\* A step of the legacy scan that changes the frame only.
LgStep(w, frame) ==
    /\ job[w].fn = LegacyScan
    /\ job' = [job EXCEPT ![w] = frame]
    /\ UNCHANGED <<state, heap, scan_results, delete_scan_results, mailbox, calls, held>>

\* scan_status[field] = value, then on to `next`.
LgPut(w, field, value, next) ==
    LgStep(w, [job[w] EXCEPT !.legacy.scan_status[field] = value, !.pc = next])

\* scan_status = {"progress": 0, "message": "Connecting to Gmail...", ...}
\* scan_results = []
LgReset(w) ==
    /\ job[w].pc = "lg_reset"
    /\ LgStep(w,
           [job[w] EXCEPT !.legacy = [scan_status |-> Status(0, <<"Connecting to Gmail...">>,
                                                             FALSE, None),
                                      scan_results |-> <<>>],
                          !.pc = "lg_auth"])

\* service, error = get_gmail_service()
\* if error: scan_status = {"progress": 0, "message": "", "done": True, "error": error}
LgAuth(w) ==
    \E error \in {None} \cup AuthErrors :
        /\ job[w].pc = "lg_auth"
        /\ LgStep(w,
               IF error # None
               THEN [job[w] EXCEPT !.legacy.scan_status = Status(0, <<>>, TRUE, error),
                                   !.error = error, !.pc = "returned"]
               ELSE [job[w] EXCEPT !.pc = "lg_fetch_message"])

\* scan_status["message"] = "Fetching email list..."
LgFetchMessage(w) ==
    /\ job[w].pc = "lg_fetch_message"
    /\ LgPut(w, "message", <<"Fetching email list...">>, "lg_list")

\* One pass of `while len(message_ids) < limit`: the listing call raises, or
\* its page is appended; the loop ends without a nextPageToken or at the
\* limit; then `if not message_ids`.
LgList(w) ==
    \E raises \in BOOLEAN :
        /\ job[w].fn = LegacyScan
        /\ job[w].pc = "lg_list"
        /\ calls' = [calls EXCEPT ![w] =
                       Append(@, [op |-> "list", maxResults |-> MaxResults(job[w]),
                                  ok |-> ~raises])]
        /\ job' = [job EXCEPT ![w] =
              IF raises THEN [@ EXCEPT !.error = <<"list failed">>, !.pc = "lg_exc"]
              ELSE LET page == ListPageOf(job[w].messages, MaxResults(job[w]))
                       listed == job[w].messages + page.n
                   IN  IF page.token /\ listed < job[w].limit
                       THEN [@ EXCEPT !.messages = listed]
                       ELSE [@ EXCEPT !.messages = listed, !.total_emails = listed,
                                      !.j = 0, !.processed = 0,
                                      !.pc = IF listed = 0 THEN "lg_empty"
                                             ELSE "lg_found_message"]]
        /\ UNCHANGED <<state, heap, scan_results, delete_scan_results, mailbox, held>>

\* scan_status = {"progress": 100, "message": "No emails found", "done": True, ...}
LgEmpty(w) ==
    /\ job[w].pc = "lg_empty"
    /\ LgStep(w,
           [job[w] EXCEPT !.legacy.scan_status = Status(100, <<"No emails found">>, TRUE, None),
                          !.pc = "returned"])

\* scan_status["message"] = f"Found {total} emails. Scanning with batch requests..."
LgFoundMessage(w) ==
    /\ job[w].pc = "lg_found_message"
    /\ LgPut(w, "message",
          <<"Found", job[w].total_emails, "emails. Scanning with batch requests...">>,
          "lg_batch")

\* len(message_ids[i:i + batch_size])
LgBatchLen(f) == Min(legacy_batch_size, f.total_emails - f.j)

\* unsubscribe_data after process_message has run for the messages lo+1..hi
\* of the listing, those of the senders in `linked` carrying a link that is
\* not a mailto: link: one row per domain, with the number of its messages.
Counted(data, lo, hi, linked) ==
    LET add(rows, s) ==
            LET n == ListedFrom(s, hi) - ListedFrom(s, lo)
                at == {k \in 1..Len(rows) : rows[k].domain = DomainOf[s]}
            IN  IF s \notin linked \/ n = 0 THEN rows
                ELSE IF at = {} THEN Append(rows, [domain |-> DomainOf[s], count |-> n])
                ELSE [k \in 1..Len(rows) |->
                         IF k \in at THEN [rows[k] EXCEPT !.count = @ + n] ELSE rows[k]]
    IN  add(add(data, "a@x.com"), "b@y.com")

\* batch.execute(): it raises, or process_message has run for each request.
LgBatch(w) ==
    \E raises \in BOOLEAN, linked \in SUBSET Senders :
        /\ job[w].fn = LegacyScan
        /\ job[w].pc = "lg_batch"
        /\ raises => linked = {}
        /\ calls' = [calls EXCEPT ![w] =
                       Append(@, [op |-> "batch_get", lo |-> job[w].j,
                                  hi |-> job[w].j + LgBatchLen(job[w]), ok |-> ~raises])]
        /\ job' = [job EXCEPT ![w] =
              IF raises THEN [@ EXCEPT !.error = <<"batch failed">>, !.pc = "lg_exc"]
              ELSE [@ EXCEPT !.processed = @ + LgBatchLen(job[w]),
                             !.unsubscribe_data =
                                 Counted(@, job[w].j, job[w].j + LgBatchLen(job[w]), linked),
                             !.pc = "lg_progress"]]
        /\ UNCHANGED <<state, heap, scan_results, delete_scan_results, mailbox, held>>

\* scan_status["progress"] = int((i + len(batch_ids)) / total * 100)
LgProgress(w) ==
    /\ job[w].pc = "lg_progress"
    /\ LgPut(w, "progress",
          Pct(job[w].j + LgBatchLen(job[w]), job[w].total_emails, 100), "lg_message")

\* scan_status["message"] = f"Scanned {processed}/{total} emails (...)", then
\* the next batch, or sorted_results = sorted(..., reverse=True).
LgMessage(w) ==
    /\ job[w].pc = "lg_message"
    /\ LgStep(w,
           [job[w] EXCEPT !.legacy.scan_status.message =
                              <<"Scanned", job[w].processed, "/", job[w].total_emails,
                                "emails (", Len(job[w].unsubscribe_data), "senders found)">>,
                          !.j = @ + legacy_batch_size,
                          !.sorted_results =
                              IF job[w].j + legacy_batch_size < job[w].total_emails THEN @
                              ELSE SortedByCount(job[w].unsubscribe_data),
                          !.pc = IF job[w].j + legacy_batch_size < job[w].total_emails
                                 THEN "lg_batch" ELSE "lg_test_message"])

\* scan_status["message"] = f"Testing {len(sorted_results)} links in parallel..."
\* tested_count = 0
LgTestMessage(w) ==
    /\ job[w].pc = "lg_test_message"
    /\ LgStep(w,
           [job[w] EXCEPT !.legacy.scan_status.message =
                              <<"Testing", Len(job[w].sorted_results), "links in parallel...">>,
                          !.tested_count = 0,
                          !.pc = IF job[w].sorted_results = <<>> THEN "lg_publish"
                                 ELSE "lg_completed"])

\* for future in as_completed(futures): a link test has ended with either
\* answer (the model numbers the items in the order their tests end);
\* tested_count += 1
LgCompleted(w) ==
    \E type \in {"one-click", "manual"} :
        /\ job[w].pc = "lg_completed"
        /\ LgStep(w,
               [job[w] EXCEPT !.tested_count = @ + 1,
                              !.types = Append(@, type),
                              !.pc = "lg_test_progress"])

\* scan_status["progress"] = int(tested_count / len(sorted_results) * 100)
LgTestProgress(w) ==
    /\ job[w].pc = "lg_test_progress"
    /\ LgPut(w, "progress",
          Pct(job[w].tested_count, Len(job[w].sorted_results), 100), "lg_testing_message")

\* scan_status["message"] = f"Testing links... {tested_count}/{len(sorted_results)}"
LgTestingMessage(w) ==
    /\ job[w].pc = "lg_testing_message"
    /\ LgPut(w, "message",
          <<"Testing links...", job[w].tested_count, "/", Len(job[w].sorted_results)>>,
          IF job[w].tested_count < Len(job[w].sorted_results) THEN "lg_completed"
          ELSE "lg_publish")

\* scan_results = sorted_results
LgPublish(w) ==
    /\ job[w].pc = "lg_publish"
    /\ LgStep(w,
           [job[w] EXCEPT !.legacy.scan_results = job[w].sorted_results, !.pc = "lg_done"])

\* scan_status = {"progress": 100, "message": f"Done! ...", "done": True, "error": None}
LgDone(w) ==
    LET one_click == Len(SelectSeq(job[w].types, LAMBDA t : t = "one-click"))
        manual == Len(job[w].legacy.scan_results) - one_click
    IN  /\ job[w].pc = "lg_done"
        /\ LgStep(w,
               [job[w] EXCEPT !.legacy.scan_status =
                                  Status(100, <<"Done!", one_click, "auto-unsubscribe,", manual,
                                                "need manual action">>, TRUE, None),
                              !.pc = "returned"])

\* except Exception as e:
\*     scan_status = {"progress": 0, "message": "", "done": True, "error": str(e)}
LgExc(w) ==
    /\ job[w].pc = "lg_exc"
    /\ LgStep(w,
           [job[w] EXCEPT !.legacy.scan_status = Status(0, <<>>, TRUE, job[w].error),
                          !.pc = "returned"])

\* One step of a legacy scan run by worker w.
LegacyScanStep(w) ==
    \/ LgReset(w)
    \/ LgAuth(w)
    \/ LgFetchMessage(w)
    \/ LgList(w)
    \/ LgEmpty(w)
    \/ LgFoundMessage(w)
    \/ LgBatch(w)
    \/ LgProgress(w)
    \/ LgMessage(w)
    \/ LgTestMessage(w)
    \/ LgCompleted(w)
    \/ LgTestProgress(w)
    \/ LgTestingMessage(w)
    \/ LgPublish(w)
    \/ LgDone(w)
    \/ LgExc(w)

----------------------------------------------------------------------------
(* archive_emails_background and mark_important_background.  Both take the  *)
(* result of get_gmail_service() as the service itself                      *)
(* (`service = get_gmail_service()`), while the function returns the pair   *)
(* (service, error): a pair is never falsy, so `if not service` is never    *)
(* taken, and `service.users()` raises AttributeError on it.                *)

SubmitPerSender(w) ==
    \E fn \in PerSenderFns, senders \in SenderLists, important \in BOOLEAN :
        /\ job[w].pc = "idle"
        /\ fn = Archive => important
        /\ job' = [job EXCEPT ![w] = [IdleFrame EXCEPT !.fn = fn, !.pc = "reset",
                                                       !.senders = senders,
                                                       !.important = important]]
        /\ calls' = [calls EXCEPT ![w] = <<>>]
        /\ UNCHANGED <<state, heap, scan_results, delete_scan_results, mailbox, held>>

\* action = "Marking" if important else "Unmarking"
Action(f) == IF f.important THEN "Marking" ELSE "Unmarking"

\* str(e) of the AttributeError that service.users() raises
TupleHasNoUsers == <<"'tuple' object has no attribute 'users'">>

\* state.reset_archive() / state.reset_important()
ArReset(w) ==
    /\ job[w].pc = "reset"
    /\ job[w].fn \in PerSenderFns
    /\ LET b == Bind(state, heap, ResetTargets(Slot(job[w].fn)))
       IN  /\ state' = b.st
           /\ heap' = Collect(b.st, b.h, held.ref)
    /\ job' = [job EXCEPT ![w].pc = "ar_total_senders",
                          ![w].own = Fresh(Slot(job[w].fn)),
                          ![w].raced = \E v \in Workers \ {w} :
                                          /\ job[v].fn = job[w].fn
                                          /\ job[v].pc \notin {"idle", "reset", "returned"}]
    /\ UNCHANGED <<scan_results, delete_scan_results, mailbox, calls, held>>

\* state.<slot>["total_senders"] = len(senders)
ArTotalSenders(w) ==
    /\ job[w].pc = "ar_total_senders"
    /\ Put(w, "total_senders", Len(job[w].senders), "ar_start_message")

\* state.archive_status["message"] = "Starting archive..."
ArStartMessage(w) ==
    /\ job[w].pc = "ar_start_message"
    /\ Put(w, "message",
           IF job[w].fn = Archive THEN <<"Starting archive...">>
           ELSE <<Action(job[w]), "as important...">>,
           "ar_auth")

\* try: service = get_gmail_service(); if not service: ...
\* `service` is the whole pair, whatever the pair holds, and the test is false.
ArAuth(w) ==
    /\ job[w].pc = "ar_auth"
    /\ \E error \in {None} \cup AuthErrors :
          calls' = [calls EXCEPT ![w] = Append(@, AuthCall(error))]
    /\ job' = [job EXCEPT ![w].pc = "ar_loop"]
    /\ UNCHANGED <<state, heap, scan_results, delete_scan_results, mailbox, held>>

\* for i, sender in enumerate(senders): the next iteration, or the code after
\* the loop.
ArLoop(w) ==
    /\ job[w].pc = "ar_loop"
    /\ job' = [job EXCEPT ![w].pc = IF job[w].i < Len(job[w].senders)
                                    THEN "ar_current_sender" ELSE "ar_fin_progress"]
    /\ UNCHANGED <<state, heap, scan_results, delete_scan_results, mailbox, calls, held>>

\* state.<slot>["current_sender"] = i + 1
ArCurrentSender(w) ==
    /\ job[w].pc = "ar_current_sender"
    /\ Put(w, "current_sender", job[w].i + 1, "ar_message")

\* state.<slot>["message"] = f"Archiving emails from {sender}..."
ArMessage(w) ==
    /\ job[w].pc = "ar_message"
    /\ Put(w, "message",
           <<IF job[w].fn = Archive THEN "Archiving" ELSE Action(job[w]),
             "emails from", CurSender(job[w])>>,
           "ar_progress")

\* state.<slot>["progress"] = int((i / len(senders)) * 100)
ArProgress(w) ==
    /\ job[w].pc = "ar_progress"
    /\ Put(w, "progress", Pct(job[w].i, Len(job[w].senders), 100), "ar_list")

\* result = service.users().messages().list(...): AttributeError before any
\* request is built; the except clause of the function catches it.
ArList(w) ==
    /\ job[w].pc = "ar_list"
    /\ job' = [job EXCEPT ![w].error = TupleHasNoUsers, ![w].pc = "ar_exc_error"]
    /\ UNCHANGED <<state, heap, scan_results, delete_scan_results, mailbox, calls, held>>

\* except Exception as e: state.<slot>["error"] = str(e)
ArExcError(w) ==
    /\ job[w].pc = "ar_exc_error"
    /\ Put(w, "error", job[w].error, "ar_exc_done")

\* state.<slot>["done"] = True
ArExcDone(w) ==
    /\ job[w].pc = "ar_exc_done"
    /\ Put(w, "done", TRUE, "ar_exc_message")

\* state.<slot>["message"] = f"Error: {str(e)}"
ArExcMessage(w) ==
    /\ job[w].pc = "ar_exc_message"
    /\ Put(w, "message", <<"Error:", job[w].error>>, "returned")

\* After the loop: state.<slot>["progress"] = 100
ArFinProgress(w) ==
    /\ job[w].pc = "ar_fin_progress"
    /\ Put(w, "progress", 100, "ar_fin_done")

ArFinDone(w) ==
    /\ job[w].pc = "ar_fin_done"
    /\ Put(w, "done", TRUE, "ar_fin_count")

\* state.archive_status["archived_count"] = total_archived
ArFinCount(w) ==
    /\ job[w].pc = "ar_fin_count"
    /\ Put(w, IF job[w].fn = Archive THEN "archived_count" ELSE "affected_count",
           job[w].deleted, "ar_fin_message")

\* state.archive_status["message"] = f"Archived {total_archived} emails from ..."
ArFinMessage(w) ==
    /\ job[w].pc = "ar_fin_message"
    /\ Put(w, "message",
           IF job[w].fn = Archive
           THEN <<"Archived", job[w].deleted, "emails from", Len(job[w].senders), "senders">>
           ELSE <<job[w].deleted, "emails",
                  IF job[w].important THEN "marked as important"
                  ELSE "unmarked as important">>,
           "returned")

\* One step of an archive or mark-important job run by worker w.
PerSenderStep(w) ==
    \/ ArReset(w)
    \/ ArTotalSenders(w)
    \/ ArStartMessage(w)
    \/ ArAuth(w)
    \/ ArLoop(w)
    \/ ArCurrentSender(w)
    \/ ArMessage(w)
    \/ ArProgress(w)
    \/ ArList(w)
    \/ ArExcError(w)
    \/ ArExcDone(w)
    \/ ArExcMessage(w)
    \/ ArFinProgress(w)
    \/ ArFinDone(w)
    \/ ArFinCount(w)
    \/ ArFinMessage(w)


----------------------------------------------------------------------------
(* The status readers get_*_status of src/app/services/gmail.py, called by *)
(* the polling endpoints of src/app/api/status.py.                         *)

\* dict.copy(): a new dict with the same items
Copy(d) == [kind |-> "copy", ref |-> 0, value |-> d]

\* The dict object itself: the caller holds a reference to it.
Reference(id) == [kind |-> "ref", ref |-> id, value |-> heap[id]]

\* Reading an attribute that AppState does not have raises AttributeError.
AttributeError == [kind |-> "raise", ref |-> 0, value |-> Base]

\* get_download_status builds a new dict without csv_data.
DownloadView(d) ==
    [progress |-> d.progress, message |-> d.message, done |-> d.done, error |-> d.error,
     total_emails |-> d.total_emails, fetched_count |-> d.fetched_count]

\* What the get_*_status function of status attribute k returns.
GetStatus(k) ==
    IF k \notin DOMAIN state THEN AttributeError
    ELSE CASE k = "delete_bulk_status" -> Reference(state[k])
           [] k = "download_status" -> Copy(DownloadView(Dict(k)))
           [] OTHER -> Copy(Dict(k))

NoHeld == [fn |-> "none", kind |-> "none", ref |-> 0, value |-> Base]

\* A polling request: the endpoint calls the reader and holds what it returned
\* (`value` keeps what the returned dict contained at the time of the return).
Poll(k) ==
    /\ held' = [fn |-> k, kind |-> GetStatus(k).kind, ref |-> GetStatus(k).ref,
                value |-> GetStatus(k).value]
    /\ heap' = Collect(state, heap, GetStatus(k).ref)
    /\ UNCHANGED <<state, scan_results, delete_scan_results, job, mailbox, calls>>

\* What the poller finds now in the value it was given.
HeldNow == IF held.kind = "ref" THEN heap[held.ref] ELSE held.value

----------------------------------------------------------------------------
(* Specifications *)

\* The ResultCache a completed sender scan of the mailbox leaves: one row per
\* sender that has messages, sorted by descending count.
ScanRows ==
    LET a == "a@x.com"
        b == "b@y.com"
        row(s) == [email |-> s, count |-> mailbox[s], message_ids |-> mailbox[s]]
        first == IF mailbox[b] > mailbox[a] THEN b ELSE a
        second == IF first = a THEN b ELSE a
    IN  SelectSeq(<<row(first), row(second)>>, LAMBDA r : r.count > 0)

\* The delete_scan_status a completed sender scan that found rows leaves.
ScanDoneStatus(rows) ==
    [progress |-> 100, message |-> <<"Found", Len(rows), "senders">>, done |-> TRUE,
     error |-> None]

\* The process right after AppState.__init__, with nothing submitted yet.
InitFresh ==
    /\ state = AppStateInit.st
    /\ heap = AppStateInit.h
    /\ scan_results = <<>>
    /\ delete_scan_results = <<>>
    /\ job = [w \in Workers |-> IdleFrame]
    /\ calls = [w \in Workers |-> <<>>]
    /\ mailbox \in [Senders -> MsgCounts]
    /\ held = NoHeld

\* The process after one completed sender scan (scan_senders_for_delete) of a
\* mailbox that has messages: the scan published its rows and its status.
InitScanned ==
    /\ mailbox \in [Senders -> MsgCounts]
    /\ ScanRows # <<>>
    /\ state = AppStateInit.st
    /\ heap = [AppStateInit.h EXCEPT ![AppStateInit.st["delete_scan_status"]] =
                                          ScanDoneStatus(ScanRows)]
    /\ scan_results = <<>>
    /\ delete_scan_results = ScanRows
    /\ job = [w \in Workers |-> IdleFrame]
    /\ calls = [w \in Workers |-> <<>>]
    /\ held = NoHeld

Init == InitFresh \/ InitScanned

\* The process started on one mailbox: a sender with one message and a sender
\* whose listing takes two pages.
InitKinds ==
    /\ Init
    /\ mailbox = [s \in Senders |-> IF s = "a@x.com" THEN 1 ELSE PageSize + 1]

Next ==
    \/ SubmitDeleteBulk("w1")
    \/ SubmitLabel("w1")
    \/ TwoPhaseStep("w1")

Spec == Init /\ [][Next]_vars

\* The same jobs with a poller that reads the status of any kind at any time.
NextPoll ==
    \/ Next
    \/ \E k \in StatusAttrs : Poll(k)

SpecPoll == InitKinds /\ [][NextPoll]_vars

\* A fresh process in which one worker runs a two-phase job.
SpecFresh == InitFresh /\ [][Next]_vars

\* One worker that runs one job of any kind.
NextJobs ==
    \/ Next
    \/ SubmitDownload("w1")
    \/ DownloadStep("w1")
    \/ SubmitScan("w1")
    \/ ScanStep("w1")
    \/ SubmitPerSender("w1")
    \/ PerSenderStep("w1")

SpecJobs == Init /\ [][NextJobs]_vars

\* The same under the scheduling of the thread pool (a submitted task runs,
\* and a running task takes its next step), on an empty mailbox or on one with
\* a sender of one message and a sender whose messages fill several pages and
\* chunks.
InitFair ==
    /\ Init
    /\ mailbox \in {[s \in Senders |-> 0],
                    [s \in Senders |-> IF s = "a@x.com" THEN 1 ELSE PageSize * MaxPages + 1]}

FairJobs == InitFair /\ [][NextJobs]_vars /\ WF_vars(NextJobs)

\* Two delete-bulk jobs submitted at any time, also while the other one runs.
NextRace ==
    \E w \in Workers :
        \/ SubmitDeleteBulk(w) /\ ShortLists(MaxRaceSenders)
        \/ DeleteBulkStep(w)

SpecRace == InitFresh /\ [][NextRace]_vars

\* A label job and a download job, submitted at any time.
NextKinds ==
    \/ SubmitLabel("w1") /\ ShortLists(MaxRaceSenders)
    \/ TwoPhaseStep("w1")
    \/ SubmitDownload("w2") /\ ShortLists(MaxRaceSenders)
    \/ DownloadStep("w2")

SpecKinds == InitKinds /\ [][NextKinds]_vars

\* A process with a mailbox of at most MaxInbox messages, and one scan whose
\* batch loop is followed message by message.
InitItems ==
    /\ state = AppStateInit.st
    /\ heap = AppStateInit.h
    /\ scan_results = <<>>
    /\ delete_scan_results = <<>>
    /\ job = [w \in Workers |-> IdleFrame]
    /\ calls = [w \in Workers |-> <<>>]
    /\ mailbox \in {m \in [Senders -> 0..MaxInbox] : SumOver(m, Senders) <= MaxInbox}
    /\ held = NoHeld

NextItems ==
    \/ SubmitItemScan("w1")
    \/ ItemScanStep("w1")

SpecItems == InitItems /\ [][NextItems]_vars

\* One call of build_gmail_query, _get_unsubscribe_from_headers or
\* unsubscribe_single, with its arguments.
InitCalls ==
    /\ state = AppStateInit.st
    /\ heap = AppStateInit.h
    /\ scan_results = <<>>
    /\ delete_scan_results = <<>>
    /\ \/ \E f \in FilterSets : job = Calls(BuildGmailQuery, f)
       \/ \E n \in 0..MaxFilterItems :
             \E keys \in [1..n -> DOMAIN FilterValue], c \in [1..n -> FieldChoices] :
                /\ DictKeys(keys)
                /\ job = Calls(BuildGmailQuery,
                              [kind |-> "dict", items |-> DictItems(keys, c)])
       \/ \E h \in HeaderLists : job = Calls(GetUnsubscribeFromHeaders, h)
       \/ \E n \in 0..MaxValueLen :
             \E v \in [1..n -> HeaderTokens], name \in HeaderNames, shape \in HeaderShapes :
                job = Calls(GetUnsubscribeFromHeaders,
                            HeadersWith([name |-> name, value |-> v], shape))
       \/ \E l \in UnsubLinks :
             job = Calls(UnsubscribeSingle, [domain |-> <<"shop.com">>, link |-> l])
    /\ calls = [w \in Workers |-> <<>>]
    /\ mailbox = [s \in Senders |-> 0]
    /\ held = NoHeld

NextCalls ==
    \/ BuildGmailQueryReturn("w1")
    \/ GetUnsubscribeReturn("w1")
    \/ UsNoLink("w1")
    \/ UsMailto("w1")
    \/ UsCheckUrl("w1")
    \/ UsResolve("w1")
    \/ UsPost("w1")
    \/ UsGet("w1")

SpecCalls == InitCalls /\ [][NextCalls]_vars

\* One call of delete_emails_by_sender, on a fresh process or after a sender
\* scan.
NextBySender ==
    \/ SubmitDeleteBySender("w1")
    \/ DeleteBySenderStep("w1")

SpecBySender == Init /\ [][NextBySender]_vars

\* A sender scan submitted to the thread pool and a call of
\* delete_emails_by_sender in the event loop, each at any time, on an empty
\* mailbox or on one with a sender of one message and a sender whose listing
\* takes two pages.
InitCacheRace ==
    /\ Init
    /\ mailbox \in {[s \in Senders |-> 0],
                    [s \in Senders |-> IF s = "a@x.com" THEN 1 ELSE PageSize + 1]}

\* One step of a scan_senders_for_delete job run by worker w.
SenderScanStep(w) ==
    \/ ScReset(w)
    \/ ScConnectMessage(w)
    \/ ScAuth(w)
    \/ ScAuthError(w)
    \/ ScAuthDone(w)
    \/ ScFetchMessage(w)
    \/ ScList(w)
    \/ ScNextPage(w)
    \/ ScEmptyMessage(w)
    \/ ScEmptyDone(w)
    \/ ScFoundMessage(w)
    \/ ScBatch(w)
    \/ ScProgress(w)
    \/ ScMessage(w)
    \/ ScPublish(w)
    \/ ScFinMessage(w)
    \/ ScFinDone(w)
    \/ ScExcError(w)
    \/ ScExcDone(w)

NextCacheRace ==
    \/ SubmitScan("w1") /\ job'["w1"].fn = DeleteScan
    \/ SenderScanStep("w1")
    \/ SubmitDeleteBySender("w2")
    \/ DeleteBySenderStep("w2")

SpecCacheRace == InitCacheRace /\ [][NextCacheRace]_vars

\* One scan of the legacy module on a fresh process.
NextLegacy ==
    \/ SubmitLegacyScan("w1")
    \/ LegacyScanStep("w1")

SpecLegacy == InitFresh /\ [][NextLegacy]_vars

\* One message handed to the export loop of download_emails_background.
InitExport ==
    /\ state = AppStateInit.st
    /\ heap = AppStateInit.h
    /\ scan_results = <<>>
    /\ delete_scan_results = <<>>
    /\ \E msg \in Messages(MaxParts) :
          job = [w \in Workers |->
                    IF w = "w1" THEN [IdleFrame EXCEPT !.fn = ExportRow, !.pc = "call",
                                                       !.args = msg]
                    ELSE IdleFrame]
    /\ calls = [w \in Workers |-> <<>>]
    /\ mailbox = [s \in Senders |-> 0]
    /\ held = NoHeld

NextExport == ExportRowReturn("w1")

SpecExport == InitExport /\ [][NextExport]_vars

----------------------------------------------------------------------------
(* What a finished job did, read from its frame and its call log. *)

Returned(w) == job[w].pc = "returned"

\* The status dict of the job that worker w runs or ran.
JobStatus(w) == Dict(Slot(job[w].fn))

MutateCalls(w) == SelectSeq(calls[w], LAMBDA c : c.op = "batchModify")

\* ceil(total / batch_size): the chunks of a collected id list
Chunks(total) == (total + batch_size - 1) \div batch_size

\* The number of leading ids of all_message_ids that successful batchModify
\* calls have carried.
Mutated(w) ==
    LET ok == SelectSeq(MutateCalls(w), LAMBDA c : c.ok)
    IN  IF ok = <<>> THEN 0 ELSE ok[Len(ok)].hi

\* The position after the last id of segment number idx of a collected list.
SegEnd(segs, idx) == SumN(SubSeq(segs, 1, idx))

\* Every message listed for sender s was carried by a successful mutate call.
MutatedSender(w, s) ==
    /\ \E idx \in 1..Len(job[w].all_message_ids) : job[w].all_message_ids[idx].sender = s
    /\ \A idx \in 1..Len(job[w].all_message_ids) :
          job[w].all_message_ids[idx].sender = s
             => SegEnd(job[w].all_message_ids, idx) <= Mutated(w)

\* The final status tells the user that errors occurred.
ReportsErrors(st, fn, n) ==
    st.message = <<Verb(fn), n, "emails with some errors">>

----------------------------------------------------------------------------
(* Claims *)

\* C1: when a second delete-bulk job calls reset_delete_bulk while a first one
\* is still running, then once both workers have ended delete_bulk_status is the
\* final status of exactly one of the two jobs: every field holds what that one
\* job wrote.
C1_SingleWinnerStatus ==
    (/\ \A w \in Workers : Returned(w) /\ job[w].fn = DeleteBulk
     /\ \E w \in Workers : job[w].raced)
        => \E w \in Workers : Dict("delete_bulk_status") = job[w].own

\* C2: in every observable state of a delete-bulk or label job, a status
\* whose progress is 100 also has done = TRUE.
C2_ProgressHundredOnlyWhenDone ==
    \A w \in Workers :
        (job[w].fn \in TwoPhaseFns /\ job[w].pc # "reset")
            => (JobStatus(w).progress = 100 => JobStatus(w).done)

\* C3: when the mutate call of one chunk fails, the job still issues the
\* mutate calls of every remaining chunk before it finishes.
C3_AllChunksAttemptedAfterFailure ==
    \A w \in Workers :
        (/\ Returned(w)
         /\ job[w].fn \in TwoPhaseFns
         /\ \E n \in 1..Len(MutateCalls(w)) : ~MutateCalls(w)[n].ok)
            => Len(MutateCalls(w)) = Chunks(job[w].total_emails)

\* C4: whenever a soft error occurred (a failed listing in phase 1 or a failed
\* chunk in phase 2) the final status reports success-with-errors, also when
\* phase 1 collected zero ids.
C4_SoftErrorsAreReported ==
    \A w \in Workers :
        (Returned(w) /\ job[w].fn \in TwoPhaseFns /\ job[w].errors # <<>>)
            => ReportsErrors(JobStatus(w), job[w].fn, job[w].deleted)

\* C5: a job that finishes with soft errors only has done = TRUE, error = None
\* and a message that reports the errors.
C5_PartialFailureLeavesErrorNull ==
    \A w \in Workers :
        (/\ Returned(w)
         /\ job[w].fn \in TwoPhaseFns
         /\ job[w].errors # <<>>
         /\ job[w].all_message_ids # <<>>)
            => /\ JobStatus(w).done
               /\ JobStatus(w).error = None
               /\ ReportsErrors(JobStatus(w), job[w].fn, job[w].deleted)

\* C6: after a delete-bulk job completed having trashed the messages of
\* sender s, the ResultCache has no row whose email is s.
C6_TrashedSendersLeaveCache ==
    \A w \in Workers, s \in Senders :
        (Returned(w) /\ job[w].fn = DeleteBulk /\ MutatedSender(w, s))
            => \A n \in 1..Len(delete_scan_results) : delete_scan_results[n].email # s

\* C7: in the initial state of the process, before any job is submitted, the
\* status reader of every operation kind returns a status in the Ready
\* zero-state; no kind's status is missing.
C7_EveryKindReadyAtStart ==
    (\A w \in Workers : job[w].pc = "idle")
        => \A k \in StatusAttrs :
              /\ GetStatus(k).kind # "raise"
              /\ GetStatus(k).value.progress = 0
              /\ GetStatus(k).value.done = FALSE
              /\ GetStatus(k).value.error = None

\* A step in which worker w executes the reset_* call of its job.
IsResetStep(w) == job[w].pc = "reset" /\ job'[w].pc # "reset"

\* C8: the reset_* call that starts a job of one kind leaves the status of
\* every other kind unchanged.
C8_ResetLeavesOtherKindsAlone ==
    [][\A w \in Workers :
          IsResetStep(w)
              => \A k \in DOMAIN state \ {Slot(job[w].fn)} :
                    /\ k \in DOMAIN state'
                    /\ heap'[state'[k]] = heap[state[k]]]_vars

\* C9: once done = TRUE is observable, no field of that status is written
\* again until the next reset of that kind.
C9_FrozenOnceDone ==
    [][\A k \in DOMAIN state :
          (heap[state[k]].done /\ state'[k] = state[k])
              => heap'[state[k]] = heap[state[k]]]_vars


\* C10: the value a get_*_status reader returned is a snapshot: later writes
\* of the job worker do not change what the reader holds.
C10_ReaderHoldsSnapshot ==
    held.kind \in {"copy", "ref"} => HeldNow = held.value

\* The positions in the call log of worker w of the calls with operation op.
CallsAt(w, op) == {n \in 1..Len(calls[w]) : calls[w][n].op = op}

\* Every list call of worker w's job precedes each of its batchModify calls,
\* and a batchModify call is issued only after the loop over the senders ended.
ListsBeforeMutates(w) ==
    /\ \A l \in CallsAt(w, "list"), m \in CallsAt(w, "batchModify") : l < m
    /\ CallsAt(w, "batchModify") # {} => job[w].i = Len(job[w].senders)

\* The batchModify calls of worker w's job carry the ids 0..total-1 of the list
\* collected in phase 1, each once and in order.
MutatesCollectedList(w) ==
    LET mc == MutateCalls(w)
    IN  /\ mc # <<>>
        /\ mc[1].lo = 0
        /\ \A n \in 2..Len(mc) : mc[n].lo = mc[n - 1].hi
        /\ mc[Len(mc)].hi = IdLen(job[w].all_message_ids)

\* C11: in a delete-bulk or label job no batchModify call is issued until the
\* listing of every input sender has finished, and the ids the job's
\* batchModify calls carry are exactly the list collected in phase 1.
C11_MutatesExactlyTheCollectedList ==
    \A w \in Workers :
        job[w].fn \in TwoPhaseFns
            => /\ ListsBeforeMutates(w)
               /\ (Returned(w) /\ job[w].all_message_ids # <<>>)
                      => MutatesCollectedList(w)

\* The loop iterations (0-based, as `i` in the code) of worker w's job in which
\* a messages.list call raised.
FailedIterations(w) ==
    {calls[w][n].i : n \in {l \in CallsAt(w, "list") : ~calls[w][l].ok}}

\* The number of ids the iterations of worker w's job other than the failed
\* ones have to collect: every message of their senders.
IdsOfListedSenders(w) ==
    LET good == (0..(Len(job[w].senders) - 1)) \ FailedIterations(w)
    IN  SumOver([i \in good |-> mailbox[job[w].senders[i + 1]]], good)

\* C17: in a delete-bulk or label job, if the listing of one sender fails (on
\* its first or a later page) that sender contributes no ids, the failure is
\* recorded as a soft error, and every other sender of the input is still
\* listed and its ids are still carried by the batchModify calls of phase 2.
C17_ListingFailureSkipsOnlyThatSender ==
    \A w \in Workers :
        (Returned(w) /\ job[w].fn \in TwoPhaseFns /\ FailedIterations(w) # {})
            => /\ IdLen(job[w].all_message_ids) = IdsOfListedSenders(w)
               /\ \A i \in FailedIterations(w) :
                     \E e \in 1..Len(job[w].errors) :
                        job[w].errors[e] = <<job[w].senders[i + 1], "list failed">>
               /\ \A i \in 0..(Len(job[w].senders) - 1) :
                     \E l \in CallsAt(w, "list") : calls[w][l].i = i /\ calls[w][l].first
               /\ job[w].all_message_ids # <<>> => MutatesCollectedList(w)

\* C18: in a delete-bulk or label job, if phase 1 ran over every sender and
\* collected zero ids, the job issues no batchModify call and ends with
\* progress 100, done TRUE and the 'nothing to do' message of its function.
C18_NothingCollectedNothingMutated ==
    \A w \in Workers :
        (/\ Returned(w)
         /\ job[w].fn \in TwoPhaseFns
         /\ job[w].senders # <<>>
         /\ job[w].i = Len(job[w].senders)
         /\ job[w].all_message_ids = <<>>)
            => /\ MutateCalls(w) = <<>>
               /\ JobStatus(w).progress = 100
               /\ JobStatus(w).done
               /\ JobStatus(w).message = EmptyMessage(job[w].fn)

\* A job returned after phase 1 listed two senders and found no message.
C18_Witness ==
    \E w \in Workers :
        /\ Returned(w)
        /\ job[w].fn \in TwoPhaseFns
        /\ Len(job[w].senders) = 2
        /\ job[w].i = 2
        /\ job[w].all_message_ids = <<>>
        /\ \E l \in CallsAt(w, "list") : calls[w][l].ok

\* The error of the pair that get_gmail_service returned to worker w's job
\* (None when it returned a service), for a job that has made the call.
AuthResult(w) == calls[w][CHOOSE n \in CallsAt(w, "auth") : TRUE].error

\* Worker w's job has called get_gmail_service and got an error.
AuthRefused(w) == CallsAt(w, "auth") # {} /\ AuthResult(w) # None

\* Worker w's job has called get_gmail_service and got a service.
AuthGranted(w) == CallsAt(w, "auth") # {} /\ AuthResult(w) = None

\* The number of messages the mailbox holds for the senders of worker w's job.
MessagesOfSenders(w) ==
    SumOver([n \in 1..Len(job[w].senders) |-> mailbox[job[w].senders[n]]],
            1..Len(job[w].senders))

C13_ArchiveSucceeds ==
    \A w \in Workers :
        (/\ Returned(w)
         /\ job[w].fn = Archive
         /\ AuthGranted(w)
         /\ \A n \in 1..Len(calls[w]) : calls[w][n].ok)
            => /\ JobStatus(w).done
               /\ JobStatus(w).error = None
               /\ JobStatus(w).archived_count = MessagesOfSenders(w)
               /\ MessagesOfSenders(w) > 0
                     => \E m \in CallsAt(w, "batchModify") :
                           calls[w][m].body.removeLabelIds = <<"INBOX">>

\* C14: when get_gmail_service returns an error to an archive or mark-important
\* job, the job ends with done = TRUE and the status error equal to exactly
\* that error text, and it issues no list and no batchModify call.
C14_PerSenderAuthErrorVerbatim ==
    \A w \in Workers :
        (Returned(w) /\ job[w].fn \in PerSenderFns /\ AuthRefused(w))
            => /\ JobStatus(w).done
               /\ JobStatus(w).error = AuthResult(w)
               /\ CallsAt(w, "list") = {}
               /\ CallsAt(w, "batchModify") = {}

\* C15: in a scan, delete-scan, mark-read, delete-bulk, label or download job
\* to which get_gmail_service returns an error, the job ends with done = TRUE
\* and error equal to that error text, issues no list, get or batchModify
\* call, and calls get_gmail_service once.
C15_AuthErrorIsFatalAndVerbatim ==
    \A w \in Workers :
        (/\ Returned(w)
         /\ job[w].fn \in ScanFns \cup TwoPhaseFns \cup {Download}
         /\ AuthRefused(w))
            => /\ JobStatus(w).done
               /\ JobStatus(w).error = AuthResult(w)
               /\ Len(calls[w]) = 1

\* A scan job has returned after get_gmail_service reported a running sign-in.
C15_Witness ==
    \E w \in Workers :
        /\ Returned(w)
        /\ job[w].fn = Scan
        /\ AuthRefused(w)
        /\ AuthResult(w) = <<"Sign-in already in progress">>

\* The first messages.list call of worker w's job raised.
FirstListingFailed(w) ==
    \E l \in CallsAt(w, "list") : calls[w][l].first /\ ~calls[w][l].ok

\* C16: in a scan, delete-scan or mark-read job whose first listing call
\* fails, the job ends with done = TRUE and error populated, no batch read or
\* batchModify call is issued, and the ResultCache of a scan kind is empty.
C16_FirstListingFailureIsFatal ==
    \A w \in Workers :
        (Returned(w) /\ job[w].fn \in ScanFns /\ FirstListingFailed(w))
            => /\ JobStatus(w).done
               /\ JobStatus(w).error # None
               /\ CallsAt(w, "batch_get") = {}
               /\ CallsAt(w, "batchModify") = {}
               /\ job[w].fn = Scan => scan_results = <<>>
               /\ job[w].fn = DeleteScan => delete_scan_results = <<>>

\* A sender scan has returned after its first listing call failed, in a
\* process whose mailbox has messages to find.
C16_Witness ==
    \E w \in Workers :
        /\ Returned(w)
        /\ job[w].fn = DeleteScan
        /\ FirstListingFailed(w)
        /\ Matching > 0

\* The status attributes of the jobs of C19.
ProgressKinds == InitAttrs \cup {"label_operation_status"}

C20_EveryJobEndsDone ==
    \A w \in Workers :
        (job[w].pc # "idle") ~> (Returned(w) /\ JobStatus(w).done)

\* An archive job has returned with done = TRUE after the exception of its
\* first iteration.
C20_Witness ==
    \E w \in Workers :
        /\ Returned(w)
        /\ job[w].fn = Archive
        /\ job[w].senders # <<>>
        /\ JobStatus(w).done

\* The listing calls of worker w's job, in the order they were issued.
ListCalls(w) == SelectSeq(calls[w], LAMBDA c : c.op = "list")

\* The number of ids the first k listing calls of worker w's job returned.
RECURSIVE Collected(_, _)
Collected(w, k) == IF k = 0 THEN 0 ELSE ListCalls(w)[k].n + Collected(w, k - 1)

\* C21: every listing request of scan_emails, scan_senders_for_delete and
\* mark_emails_as_read asks for min(500, target count - ids collected so far)
\* ids: never more than 500 and never more than are still needed.
C21_PageRequestIsCapped ==
    \A w \in Workers :
        job[w].fn \in ScanFns =>
            \A k \in 1..Len(ListCalls(w)) :
                LET needed == job[w].limit - Collected(w, k - 1)
                    asked == ListCalls(w)[k].maxResults
                IN  /\ asked = IF needed < 500 THEN needed ELSE 500
                    /\ asked <= 500
                    /\ asked <= needed
                    /\ asked >= 1

\* A scan asked for a second page of fewer than 500 ids, after a first page
\* that left fewer than 500 to collect.
C21_Witness ==
    \E w \in Workers :
        /\ job[w].fn \in ScanFns
        /\ Len(ListCalls(w)) >= 2
        /\ ListCalls(w)[2].maxResults < 500
        /\ ListCalls(w)[2].maxResults = job[w].limit - ListCalls(w)[1].n

\* The listing loop of worker w's scan has ended without an exception.
ListingEnded(w) ==
    /\ job[w].fn \in {Scan, DeleteScan}
    /\ job[w].pc \notin {"idle", "reset", "sc_connect_message", "sc_auth", "sc_auth_error",
                         "sc_auth_done", "sc_fetch_message", "sc_list", "sc_next_page"}
    /\ ListCalls(w) # <<>>
    /\ \A k \in 1..Len(ListCalls(w)) : ListCalls(w)[k].ok

\* C22: for a target count N the working set of scan_emails and
\* scan_senders_for_delete has at most N ids, and fewer than N only if the
\* last listing answer carried no nextPageToken.
C22_WorkingSetIsBounded ==
    \A w \in Workers :
        ListingEnded(w) =>
            /\ job[w].total_emails <= job[w].limit
            /\ job[w].total_emails = Min(Collected(w, Len(ListCalls(w))), job[w].limit)
            /\ job[w].total_emails < job[w].limit
                  => ~ListCalls(w)[Len(ListCalls(w))].token

\* A scan collected a working set smaller than its target over two pages, the
\* first of them short, and the mailbox had no more to give.
C22_Witness ==
    \E w \in Workers :
        /\ ListingEnded(w)
        /\ Len(ListCalls(w)) = 2
        /\ ListCalls(w)[1].n < ListCalls(w)[1].maxResults
        /\ job[w].total_emails < job[w].limit
        /\ job[w].total_emails = Matching

\* Every remote call of worker w's job returned without an exception.
AllCallsOk(w) == \A n \in 1..Len(calls[w]) : calls[w][n].ok

\* The requests of worker w's scan whose callback got a response.
Answered(w) == {k \in 1..Len(job[w].responses) : ~job[w].responses[k].exception}

\* The key a scan aggregates the message of a response under, None if the
\* message adds to no row.
ItemKey(fn, response) ==
    IF response.exception THEN None
    ELSE IF fn = DeleteScan THEN SenderEmail(response.headers)
    ELSE IF get_unsubscribe_from_headers(response.headers, 1)[1] = None THEN None
    ELSE Domain(SenderEmail(response.headers))

\* The rows a scan job has built.
RowsOf(w) == IF job[w].fn = Scan THEN job[w].unsubscribe_data ELSE job[w].sender_counts

\* The result list a scan job publishes.
Published(w) == IF job[w].fn = Scan THEN scan_results ELSE delete_scan_results

\* C23: whichever requests of a batch report an exception to the callback, a
\* scan whose remote calls succeed ends with done = TRUE and error = None,
\* every id was counted once (processed = total), and the requests that failed
\* add to no row.
C23_ItemFailuresAreSkipped ==
    \A w \in Workers :
        (Returned(w) /\ job[w].fn \in {Scan, DeleteScan} /\ AllCallsOk(w)
                     /\ job[w].total_emails > 0)
            => /\ JobStatus(w).done
               /\ JobStatus(w).error = None
               /\ job[w].processed = job[w].total_emails
               /\ Len(job[w].responses) = job[w].total_emails
               /\ \A i \in 1..Len(RowsOf(w)) :
                     RowsOf(w)[i].count =
                        Cardinality({k \in Answered(w) :
                                        ItemKey(job[w].fn, job[w].responses[k]) = RowsOf(w)[i].key})
               /\ \A k \in 1..Len(job[w].responses) :
                     job[w].responses[k].exception =>
                        \A i \in 1..Len(delete_scan_results) :
                           \A n \in 1..Len(delete_scan_results[i].message_ids) :
                              delete_scan_results[i].message_ids[n] # k - 1
               /\ Published(w) = SortedByCount(RowsOf(w))

\* A sender scan of three messages has returned; the request of the second
\* message failed and the other two were answered.
C23_Witness ==
    \E w \in Workers :
        /\ Returned(w)
        /\ job[w].fn = DeleteScan
        /\ AllCallsOk(w)
        /\ job[w].total_emails = 3
        /\ Answered(w) = {1, 3}

\* C24: in every state of a sender scan each row has count = len(message_ids),
\* also in the published result, and no two rows of the published result have
\* the same key.
C24_SenderRowsCountTheirIds ==
    /\ \A w \in Workers :
          job[w].fn = DeleteScan =>
             \A i \in 1..Len(job[w].sender_counts) :
                job[w].sender_counts[i].count = Len(job[w].sender_counts[i].message_ids)
    /\ \A i \in 1..Len(delete_scan_results) :
          /\ delete_scan_results[i].count = Len(delete_scan_results[i].message_ids)
          /\ \A k \in 1..Len(delete_scan_results) :
                i # k => delete_scan_results[i].key # delete_scan_results[k].key

\* The published result of a sender scan has a row of two messages and a row
\* of one.
C24_Witness ==
    /\ \E w \in Workers : Returned(w) /\ job[w].fn = DeleteScan
    /\ Len(delete_scan_results) = 2
    /\ delete_scan_results[1].count = 2
    /\ delete_scan_results[1].message_ids = <<0, 2>>

\* The three messages of the scenario were processed, each once, in some order.
ScenarioProcessed(w) ==
    /\ Len(job[w].responses) = 3
    /\ \A h \in {PromoOneClick, PromoManual, NewsManual} :
          \E k \in 1..3 : job[w].responses[k] = [exception |-> FALSE, headers |-> h]

\* C25: scanning two messages of promo@shop.com (both with an HTTPS
\* List-Unsubscribe link, one of them with List-Unsubscribe-Post) and one of
\* news@site.com gives the rows shop.com (count 2, one-click) and site.com
\* (count 1, manual), in this order, whatever the order of processing.
C25_ShopOneClickThenSiteManual ==
    \A w \in Workers :
        (Returned(w) /\ job[w].fn = Scan /\ AllCallsOk(w) /\ ScenarioProcessed(w))
            => /\ Len(scan_results) = 2
               /\ scan_results[1].key = <<"shop.com">>
               /\ scan_results[1].count = 2
               /\ scan_results[1].type = <<"one-click">>
               /\ scan_results[2].key = <<"site.com">>
               /\ scan_results[2].count = 1
               /\ scan_results[2].type = <<"manual">>

\* The first request of worker w's scan whose message went to the row `key`.
FirstSeen(w, key) ==
    CHOOSE k \in Answered(w) :
        /\ ItemKey(job[w].fn, job[w].responses[k]) = key
        /\ \A n \in Answered(w) :
              ItemKey(job[w].fn, job[w].responses[n]) = key => k <= n

\* C26: the published results are in descending order of count, and rows of
\* equal count are in the order in which their keys were first met.
C26_DescendingCountTiesByDiscovery ==
    \A w \in Workers :
        job[w].fn \in {Scan, DeleteScan} =>
            \A p, q \in 1..Len(Published(w)) :
                p < q => /\ Published(w)[p].count >= Published(w)[q].count
                         /\ Published(w)[p].count = Published(w)[q].count
                               => FirstSeen(w, Published(w)[p].key)
                                     < FirstSeen(w, Published(w)[q].key)

\* A subscription scan published two rows of one message each, site.com
\* first because its message was processed first.
C26_Witness ==
    \E w \in Workers :
        /\ Returned(w)
        /\ job[w].fn = Scan
        /\ Len(scan_results) = 2
        /\ scan_results[1].count = scan_results[2].count
        /\ scan_results[1].key = <<"site.com">>

\* The filter set of a build_gmail_query call holds a non-empty value in
\* field `key`.
Has(filters, key) ==
    \E i \in 1..Len(filters.items) :
        /\ filters.items[i][1] = key
        /\ filters.items[i][2] # None
        /\ filters.items[i][2] # <<>>

\* That value.
ValueOf(filters, key) ==
    filters.items[CHOOSE i \in 1..Len(filters.items) : filters.items[i][1] = key][2]

\* The query holds the token prefix + value.
HasToken(query, prefix, value) ==
    \E i \in 1..(Len(query) - 1) : query[i] = prefix /\ query[i + 1] = value[1]

\* Worker w's call of function fn has returned.
ReturnedFrom(w, fn) == job[w].fn = fn /\ job[w].pc = "returned"

\* C27: build_gmail_query leaves out the older_than token whenever after_date
\* or before_date is given, and emits it when neither is given and older_than
\* is; {after_date: 2025/01/15, older_than: 30d} gives exactly
\* 'after:2025/01/15'.
C27_DateRangeReplacesOlderThan ==
    \A w \in Workers :
        ReturnedFrom(w, BuildGmailQuery) =>
            LET f == job[w].args
                dated == Has(f, "after_date") \/ Has(f, "before_date")
            IN  /\ dated => \A i \in 1..Len(job[w].ret) : job[w].ret[i] # "older_than:"
                /\ (~dated /\ Has(f, "older_than"))
                      => HasToken(job[w].ret, "older_than:", ValueOf(f, "older_than"))
                /\ ({k \in DOMAIN FilterValue : Has(f, k)} = {"after_date", "older_than"}
                        /\ ValueOf(f, "after_date") = <<"2025/01/15">>
                        /\ ValueOf(f, "older_than") = <<"30d">>)
                      => job[w].ret = <<"after:", "2025/01/15">>

\* The call with the dict {older_than: 30d, after_date: 2025/01/15} returned.
C27_Witness ==
    \E w \in Workers :
        /\ ReturnedFrom(w, BuildGmailQuery)
        /\ job[w].args = [kind |-> "dict",
                          items |-> << <<"older_than", <<"30d">> >>,
                                       <<"after_date", <<"2025/01/15">> >> >>]

\* The fields in the order of their tokens, and the prefix of each token.
TokenOrder == <<"after_date", "before_date", "older_than", "larger_than",
                "category", "sender", "label">>

TokenPrefix ==
    [after_date |-> "after:", before_date |-> "before:", older_than |-> "older_than:",
     larger_than |-> "larger:", category |-> "category:", sender |-> "from:",
     label |-> "label:"]

\* The tokens of the fields in `keys` that the filter set holds a value in,
\* joined by single spaces; with `ranged`, older_than is left out next to a
\* date.
RECURSIVE TokensOf(_, _, _)
TokensOf(filters, keys, ranged) ==
    IF keys = <<>> THEN <<>>
    ELSE LET k == Head(keys)
             rest == TokensOf(filters, Tail(keys), ranged)
             left_out == /\ ranged
                         /\ k = "older_than"
                         /\ (Has(filters, "after_date") \/ Has(filters, "before_date"))
         IN  IF ~Has(filters, k) \/ left_out THEN rest
             ELSE <<TokenPrefix[k]>> \o ValueOf(filters, k)
                     \o (IF rest = <<>> THEN <<>> ELSE <<" ">> \o rest)

\* C28 as claimed: one token for every field that holds a non-empty value and
\* none for the others, joined by spaces in the order after, before,
\* older_than, larger, category, from, label.
C28_OneTokenPerField ==
    \A w \in Workers :
        ReturnedFrom(w, BuildGmailQuery)
            => job[w].ret = TokensOf(job[w].args, TokenOrder, FALSE)

\* C28: one token for every field that holds a non-empty value, except
\* older_than next to an after_date or before_date, and none for the others,
\* joined by spaces in the order after, before, older_than, larger, category,
\* from, label whatever the order of the fields in the filter set; no filter
\* set, or an empty one, gives ''.
C28_OneTokenPerFieldButOlderThan ==
    \A w \in Workers :
        ReturnedFrom(w, BuildGmailQuery)
            => job[w].ret = TokensOf(job[w].args, TokenOrder, TRUE)

\* A FiltersModel with a value in every field was turned into six tokens.
C28_Witness ==
    \E w \in Workers :
        /\ ReturnedFrom(w, BuildGmailQuery)
        /\ job[w].args.kind = "model"
        /\ \A k \in DOMAIN FilterValue : Has(job[w].args, k)
        /\ Len(job[w].ret) = 17
        /\ job[w].ret[1] = "after:"

\* A header value holds a URL of one of the schemes in angle brackets.
Bracketed(value, schemes) ==
    \E i, j \in 1..Len(value) :
        /\ i + 3 <= j
        /\ value[i] = "<"
        /\ value[i + 1] \in schemes
        /\ value[j] = ">"
        /\ \A k \in (i + 2)..(j - 1) : value[k] # ">"

\* The List-Unsubscribe values of a header list.
ListUnsubscribeValues(headers) ==
    {headers[k].value : k \in {n \in 1..Len(headers) :
                                  Lower(headers[n].name) = "list-unsubscribe"}}

\* C29 as claimed: _get_unsubscribe_from_headers answers one-click exactly
\* when the message has a List-Unsubscribe header with an HTTP(S) URL in angle
\* brackets and a List-Unsubscribe-Post header; manual when it has such a URL
\* and no List-Unsubscribe-Post, or only a mailto: address in angle brackets;
\* and no link when it has no List-Unsubscribe header.
C29_HeaderClassification ==
    \A w \in Workers :
        ReturnedFrom(w, GetUnsubscribeFromHeaders) =>
            LET headers == job[w].args
                http == \E v \in ListUnsubscribeValues(headers) :
                           Bracketed(v, {"https://", "http://"})
                mailto == \E v \in ListUnsubscribeValues(headers) : Bracketed(v, {"mailto:"})
                post == \E k \in 1..Len(headers) :
                           headers[k].name \in {"List-Unsubscribe-Post", "LIST-UNSUBSCRIBE-POST"}
            IN  /\ job[w].ret[2] = <<"one-click">> <=> (http /\ post)
                /\ (http /\ ~post) => job[w].ret[2] = <<"manual">>
                /\ (~http /\ mailto) => job[w].ret[2] = <<"manual">>
                /\ ListUnsubscribeValues(headers) = {} => job[w].ret = <<None, None>>

\* The List-Unsubscribe headers of a list that hold an HTTP(S) URL or a
\* mailto: address in angle brackets.
Deciding(headers) ==
    {k \in 1..Len(headers) :
        /\ headers[k].name \in {"List-Unsubscribe", "list-unsubscribe"}
        /\ Bracketed(headers[k].value, {"https://", "http://", "mailto:"})}

\* C29: the first List-Unsubscribe header that holds an HTTP(S) URL or a
\* mailto: address in angle brackets decides.  The answer is one-click exactly
\* when that header holds an HTTP(S) URL and the message has a
\* List-Unsubscribe-Post header; manual when it holds an HTTP(S) URL and there
\* is no List-Unsubscribe-Post, or holds only a mailto: address; and no link
\* when no List-Unsubscribe header holds such a URL.
C29_FirstListUnsubscribeDecides ==
    \A w \in Workers :
        ReturnedFrom(w, GetUnsubscribeFromHeaders) =>
            LET headers == job[w].args
                post == \E k \in 1..Len(headers) :
                           headers[k].name \in {"List-Unsubscribe-Post", "LIST-UNSUBSCRIBE-POST"}
            IN  IF Deciding(headers) = {} THEN job[w].ret = <<None, None>>
                ELSE LET first == CHOOSE k \in Deciding(headers) :
                                     \A n \in Deciding(headers) : k <= n
                         http == Bracketed(headers[first].value, {"https://", "http://"})
                     IN  /\ job[w].ret[2] = <<"one-click">> <=> (http /\ post)
                         /\ job[w].ret[2] = <<"manual">> <=> ~(http /\ post)
                         /\ job[w].ret[1] # None

\* A message with two List-Unsubscribe headers, the first with a mailto:
\* address and the second with an HTTPS URL, and a List-Unsubscribe-Post
\* header was classified manual, with the mailto: address as its link.
C29_Witness ==
    \E w \in Workers :
        /\ ReturnedFrom(w, GetUnsubscribeFromHeaders)
        /\ Len(job[w].args) = 3
        /\ job[w].args[1].value = <<"<", "mailto:", "u", ">">>
        /\ job[w].args[2].value = <<"<", "https://", "u", ">">>
        /\ job[w].args[3].name = "List-Unsubscribe-Post"
        /\ job[w].ret = << <<"mailto:", "u">>, <<"manual">> >>

\* C30: for a link that starts with 'mailto:' unsubscribe_single issues no
\* network request and returns success = False with type 'mailto'; for an
\* HTTP(S) link a GET is issued only after a POST that did not return a 2xx
\* status.
C30_MailtoUntouchedGetOnlyAfterFailedPost ==
    \A w \in Workers :
        job[w].fn = UnsubscribeSingle =>
            /\ (job[w].args.link # <<>> /\ job[w].args.link[1] = "mailto:")
                  => /\ calls[w] = <<>>
                     /\ Returned(w) => /\ ~job[w].ret.success
                                       /\ job[w].ret.type = <<"mailto">>
            /\ \A g \in CallsAt(w, "GET") :
                  \E p \in CallsAt(w, "POST") :
                     /\ p < g
                     /\ calls[w][p].raised \/ calls[w][p].status \notin 200..299

\* Every part below payload, at any depth.
RECURSIVE PartsBelow(_)
PartsBelow(payload) ==
    IF "parts" \in DOMAIN payload
    THEN UNION {{payload.parts[i]} \cup PartsBelow(payload.parts[i]) :
                   i \in 1..Len(payload.parts)}
    ELSE {}

\* The parts below payload of the given type that have data.
PartsWithData(payload, mime) ==
    {p \in PartsBelow(payload) : p.mimeType = mime /\ HasData(p)}

\* C31: an exported row has a snippet of at most 100 and a body of at most
\* 50,000 characters, and when the parts of the message hold a text/plain part
\* and a text/html part with data, in any order and at any depth, the body is
\* the (stripped, truncated) content of a text/plain part.
C31_ExportedBodyPrefersPlain ==
    \A w \in Workers :
        ReturnedFrom(w, ExportRow) =>
            LET row == job[w].ret
                payload == job[w].args.payload
            IN  /\ row.snippet.len <= SnippetLimit
                /\ row.body.len <= BodyLimit
                /\ (PartsWithData(payload, "text/plain") # {}
                      /\ PartsWithData(payload, "text/html") # {})
                   => \E p \in PartsWithData(payload, "text/plain") :
                         row.body = Slice(Strip(Decode(p)), BodyLimit)

\* C32: every batchModify call of a delete-bulk or label job carries at most
\* 1000 ids, the calls carry consecutive slices of the collected list starting
\* at its first id, and when no call fails a returned job has sent every
\* collected id, each in exactly one call.
C32_ChunksPartitionCollectedList ==
    \A w \in Workers :
        job[w].fn \in TwoPhaseFns =>
            LET mc == MutateCalls(w)
                total == IdLen(job[w].all_message_ids)
            IN  /\ \A n \in 1..Len(mc) :
                      /\ mc[n].hi - mc[n].lo <= batch_size
                      /\ mc[n].lo < mc[n].hi
                      /\ mc[n].hi <= total
                      /\ mc[n].lo = IF n = 1 THEN 0 ELSE mc[n - 1].hi
                /\ (Returned(w) /\ total > 0 /\ \A n \in 1..Len(mc) : mc[n].ok)
                      => /\ mc # <<>>
                         /\ mc[Len(mc)].hi = total

\* A returned job that sent a list longer than two chunks in three calls, none
\* of which failed.
C32_Witness ==
    \E w \in Workers :
        /\ job[w].fn \in TwoPhaseFns
        /\ Returned(w)
        /\ IdLen(job[w].all_message_ids) > 2 * batch_size
        /\ Len(MutateCalls(w)) = 3
        /\ \A n \in 1..3 : MutateCalls(w)[n].ok

\* The statements of the two loops that write progress.
Phase1Writes(w) == job[w].fn \in TwoPhaseFns /\ job[w].pc = "p1_progress" /\ job'[w].pc # "p1_progress"
Phase2Writes(w) == job[w].fn \in TwoPhaseFns /\ job[w].pc = "p2_progress" /\ job'[w].pc # "p2_progress"

\* C33: in a delete-bulk or label job every progress the loop of phase 1
\* writes is in 0..40, every progress the loop of phase 2 writes is in
\* 40..100, and current_sender is never above total_senders.
C33_ProgressStaysInPhaseBudget ==
    /\ [][\A w \in Workers :
             /\ Phase1Writes(w) => JobStatus(w)'.progress \in 0..40
             /\ Phase2Writes(w) => JobStatus(w)'.progress \in 40..100]_vars
    /\ [](\A w \in Workers :
             job[w].fn \in TwoPhaseFns /\ job[w].pc # "reset"
                => JobStatus(w).current_sender <= JobStatus(w).total_senders)

\* A job on its second sender wrote a phase-1 progress above 0, and a job
\* between two chunks wrote a phase-2 progress between 40 and 100, with
\* current_sender equal to total_senders.
C33_Witness ==
    \E w \in Workers :
        /\ job[w].fn \in TwoPhaseFns
        /\ \/ /\ job[w].pc = "p1_message"
              /\ JobStatus(w).progress \in 1..40
              /\ JobStatus(w).current_sender = 2
           \/ /\ job[w].pc = "p2_message"
              /\ JobStatus(w).progress \in 41..99
              /\ JobStatus(w).current_sender = JobStatus(w).total_senders

\* The number of ids in the batchModify calls of worker w's job that have
\* returned without an exception.
RECURSIVE IdsIn(_)
IdsIn(cs) == IF cs = <<>> THEN 0 ELSE Head(cs).hi - Head(cs).lo + IdsIn(Tail(cs))

IdsMutated(w) == IdsIn(SelectSeq(MutateCalls(w), LAMBDA c : c.ok))

\* C34 as stated: at every point of a delete-bulk job deleted_count is the
\* number of ids in the batchModify calls that have returned successfully; at
\* completion without errors it is the number of collected ids.
C34_DeletedCountIsIdsMutated ==
    \A w \in Workers :
        job[w].fn = DeleteBulk /\ job[w].pc # "reset" =>
            /\ JobStatus(w).deleted_count = IdsMutated(w)
            /\ (Returned(w) /\ job[w].errors = <<>> /\ JobStatus(w).error = None)
                  => JobStatus(w).deleted_count = IdLen(job[w].all_message_ids)

\* C34, amended: deleted_count is the number of ids in the successful
\* batchModify calls, except between the return of a call and the write of
\* deleted_count that follows it, where it lacks the ids of that one call; it
\* never counts a failed chunk, and at completion without errors it is the
\* number of collected ids.
C34_DeletedCountFollowsEachCall ==
    \A w \in Workers :
        job[w].fn = DeleteBulk /\ job[w].pc # "reset" =>
            /\ JobStatus(w).deleted_count =
                  IF job[w].pc = "p2_count"
                  THEN IdsMutated(w) - BatchLen(job[w])
                  ELSE IdsMutated(w)
            /\ (Returned(w) /\ job[w].errors = <<>> /\ JobStatus(w).error = None)
                  => JobStatus(w).deleted_count = IdLen(job[w].all_message_ids)

\* A returned delete-bulk job whose second chunk failed: deleted_count is the
\* size of the first chunk.
C34_Witness ==
    \E w \in Workers :
        /\ job[w].fn = DeleteBulk
        /\ Returned(w)
        /\ Len(MutateCalls(w)) = 2
        /\ MutateCalls(w)[1].ok
        /\ ~MutateCalls(w)[2].ok
        /\ JobStatus(w).deleted_count = batch_size

\* C35: delete_emails_by_sender(s) changes state.delete_scan_results only in
\* the step in which it returns success with at least one message trashed, and
\* then the new list is the old one without the rows of s, every row of
\* another sender kept in place; a call that returns success = False reports
\* deleted = 0 (and, the cache changing only on success, left the cache alone).
C35_CacheRowLeavesOnlyOnSuccess ==
    /\ [][delete_scan_results' # delete_scan_results
             => \E w \in Workers :
                   /\ job[w].fn = DeleteBySender
                   /\ job[w].pc # "returned"
                   /\ job'[w].pc = "returned"
                   /\ job'[w].ret.success
                   /\ job'[w].ret.deleted >= 1
                   /\ LET kept == {i \in 1..Len(delete_scan_results) :
                                      delete_scan_results[i].email # job[w].args.sender}
                      IN  /\ Len(delete_scan_results') = Cardinality(kept)
                          /\ \A i \in kept :
                                \E k \in 1..Len(delete_scan_results') :
                                   delete_scan_results'[k] = delete_scan_results[i]]_vars
    /\ [](\A w \in Workers :
             (ReturnedFrom(w, DeleteBySender) /\ ~job[w].ret.success)
                => job[w].ret.deleted = 0)

\* A call that trashed the messages of a sender who had a row, the other
\* sender's row staying in the cache.
C35_Witness ==
    \E w \in Workers :
        /\ ReturnedFrom(w, DeleteBySender)
        /\ job[w].ret.success
        /\ job[w].ret.deleted > by_sender_batch_size
        /\ Len(job[w].rows) = 2
        /\ Len(delete_scan_results) = 1
        /\ delete_scan_results[1].email # job[w].args.sender

\* Worker w's sender scan has published its list of rows and written the
\* message that follows.
ScanPublished(w) ==
    /\ job[w].fn = DeleteScan
    /\ job[w].own.message = <<"Found", Len(SenderRows(job[w].processed)), "senders">>

\* C37: when a call of delete_emails_by_sender runs concurrently with a new
\* sender scan, then once the scan has published its rows and both have ended,
\* every row of state.delete_scan_results is a row the new scan published.
C37_CacheHoldsNewestScan ==
    \A w, v \in Workers :
        (/\ Returned(w) /\ ScanPublished(w)
         /\ ReturnedFrom(v, DeleteBySender))
            => \A i \in 1..Len(delete_scan_results) :
                  \E k \in 1..Len(SenderRows(job[w].processed)) :
                     delete_scan_results[i] = SenderRows(job[w].processed)[k]

\* The number of ids the first row of sender s in the ResultCache holds (0
\* when s has no row).
CachedIds(s) ==
    LET at == {i \in 1..Len(delete_scan_results) : delete_scan_results[i].email = s}
    IN  IF at = {} THEN 0
        ELSE delete_scan_results[CHOOSE i \in at : \A k \in at : i <= k].message_ids

\* The pcs of the fetch loop of a download job.
Fetching(w) == job[w].pc \in {"dl_batch", "dl_fetched", "dl_progress", "dl_message"}

\* C36: a download job issues no listing call, and the ids it fetches are the
\* ids of the ResultCache rows of the requested senders; when no requested
\* sender has a row with ids it ends with done = TRUE and an error and fetches
\* nothing; otherwise progress is at most 95 in the fetch loop and a job that
\* completes successfully has fetched_count = total_emails and progress = 100.
C36_DownloadReadsOnlyTheCache ==
    \A w \in Workers :
        job[w].fn = Download =>
            LET ids == job[w].all_message_ids
                senders == job[w].senders
                fetches == SelectSeq(calls[w], LAMBDA c : c.op = "batchGet")
            IN  /\ CallsAt(w, "list") = {}
                /\ \A n \in 1..Len(ids) :
                      /\ \E i \in 1..Len(senders) : senders[i] = ids[n].sender
                      /\ ids[n].n = CachedIds(ids[n].sender)
                /\ \A n \in 1..Len(fetches) :
                      0 <= fetches[n].lo /\ fetches[n].hi <= IdLen(ids)
                /\ (Returned(w) /\ \A i \in 1..Len(senders) : CachedIds(senders[i]) = 0)
                      => /\ JobStatus(w).done
                         /\ JobStatus(w).error # None
                         /\ fetches = <<>>
                /\ Fetching(w) => JobStatus(w).progress <= FetchBudget
                /\ (Returned(w) /\ JobStatus(w).error = None)
                      => /\ JobStatus(w).done
                         /\ JobStatus(w).fetched_count = JobStatus(w).total_emails
                         /\ JobStatus(w).total_emails = IdLen(ids)
                         /\ fetches # <<>>
                         /\ fetches[Len(fetches)].hi = IdLen(ids)
                         /\ JobStatus(w).progress = 100

\* A download of one of two cached senders that completed: several batches
\* fetched, nothing of the other sender among them.
C36_Witness ==
    \E w \in Workers :
        /\ job[w].fn = Download
        /\ Returned(w)
        /\ JobStatus(w).error = None
        /\ Len(delete_scan_results) = 2
        /\ Len(job[w].senders) = 1
        /\ JobStatus(w).fetched_count > download_batch_size
        /\ JobStatus(w).progress = 100

\* C38: in a scan of the legacy module the progress of scan_status never
\* decreases from the start of the job to done = TRUE, the step that sets
\* done included: batch stage, link-testing stage and error path.
C38_LegacyProgressNeverDecreases ==
    [][\A w \in Workers :
          (/\ job[w].fn = LegacyScan
           /\ job[w].pc \notin {"lg_reset", "returned"}
           /\ ~job[w].legacy.scan_status.done)
             => job'[w].legacy.scan_status.progress >= job[w].legacy.scan_status.progress]_vars

====
